---- MODULE Spec2Model ----
(***************************************************************************)
(* State-machine model of the BRANE backend core:                          *)
(*   - HierarchicalMemory and Neuron.chat      (core/neuron/neuron.py)     *)
(*   - MemoryConsolidator        (core/neuron/memory_consolidator.py)      *)
(*   - tool execution, permission use counter and rate limiting            *)
(*                      (api/routes/tools.py, models/tool_system.py)       *)
(* The specifications share the variables:                                 *)
(*   SpecMem    : one HierarchicalMemory driven by add_interaction and     *)
(*                get_context only;                                        *)
(*   SpecNeuron : one Neuron with concurrent chat() turns and detached     *)
(*                consolidation tasks on one asyncio event loop;           *)
(*   SpecTools  : concurrent /execute requests against one permission and  *)
(*                one rate-limit row.                                      *)
(*   SpecExec   : the run of a tool through ToolExecutor.execute, by the   *)
(*                API and by tool calls the model emits;                   *)
(*   SpecFs, SpecShell, SpecSsh : calls of the filesystem, of the shell    *)
(*                and of the remote-command tools;                         *)
(*   SpecRevoke, SpecQuiet, SpecClose, SpecManager,                        *)
(*   SpecCons, SpecInit, SpecValidity, SpecGrant, SpecRate, SpecConfirm :  *)
(*                the consolidation pipeline, Neuron.initialize, capped    *)
(*                permissions, grant/revoke, the rate-limit windows and    *)
(*                /confirm, each introduced where it is defined.           *)
(***************************************************************************)
EXTENDS Integers, Sequences, FiniteSets, TLC

(***************************************************************************)
(* Bounds of the model                                                     *)
(***************************************************************************)
MaxAdds == 11            \* add_interaction calls explored in SpecMem
MaxNowMem == 1           \* last clock reading explored in SpecMem
MaxItemsArg == 3         \* largest max_items passed to get_context

MaxTurns == 2            \* chat() calls explored in SpecNeuron
MaxConfirms == 2         \* /confirm requests explored in SpecConfirm
MaxNowRate == 61         \* last clock reading explored in SpecRate
MaxRateReqs == 2         \* /execute requests explored in SpecRate
MaxExecReqs == 2         \* requests and tool calls explored in SpecExec
MaxPathLen == 3          \* segments of a path passed to a filesystem tool
MaxCmdLen == 3           \* tokens of a command passed to a shell tool
MaxPermReqs == 3         \* grant and revoke requests explored in SpecGrant
MaxChatReqs == 3         \* chat requests explored in SpecManager
MaxRevokeReqs == 2       \* /execute requests explored in SpecRevoke
MaxReqs == 3             \* /execute requests explored in SpecTools
TickStepTools == 61      \* clock advance of SpecTools, in seconds
MaxNowTools == 61        \* last clock reading explored in SpecTools

\* the tool and the permission explored in SpecTools
max_daily_uses == 1              \* ToolPermission.max_daily_uses of the capped row
max_total_uses == 1              \* ToolPermission.max_total_uses
rate_limit_per_minute == 1       \* Tool.rate_limit_per_minute
rate_limit_per_hour == 2         \* Tool.rate_limit_per_hour
privacy_tier == 1                \* Tool.privacy_tier
max_concurrent_executions == 1   \* Tool.max_concurrent_executions
requires_confirmation == FALSE   \* Tool.requires_confirmation

MaxConcurrent == 2       \* chat() calls in progress together in SpecNeuron
MaxChunks == 1           \* fragments per streamed reply
ConsSeedAdds == {4, 12, 21, 31}  \* turns processed before consolidate(), SpecCons
MaxRuns == 1             \* consolidate() runs explored in SpecCons
MaxConsTurns == 5        \* turns completing during the runs of SpecCons
MaxQuietSeed == 31       \* most turns processed before consolidate(), SpecQuiet
SeedAdds == {0, 9, 21}   \* turns the neuron has processed before the window explored
DayJump == 86401         \* clock advance of SpecNeuron, in seconds (just over 24 h)
MaxNowNeuron == 86401    \* last clock reading explored in SpecNeuron

\* configuration of the neuron explored (config["consolidation"])
consolidation_threshold == 22    \* "threshold", default 100
max_l2_size == 11                \* "max_l2_size", default 50

Msgs == {"a", "b"}       \* user messages
Chunks == {"x"}          \* text fragments streamed by the model
Replies == {<<"x">>}     \* assistant messages: the fragments of one reply

(***************************************************************************)
(* Program constants                                                       *)
(***************************************************************************)
WorkingMemoryMax == 10   \* "keep only last 10"
TruncateLen == 200       \* i["user"][:200]
SummaryTopics == 3       \* user_questions[:3]
ContextItems == 3        \* chat(): get_context(max_items=3)
ConsolidationAge == 86400    \* timedelta(hours=24), in seconds
Stage1MinL1 == 5         \* _compress_working_memory: len(L1) < 5 -> return
Stage1Recent == 10       \* working_memory[-10:]
Stage1Keep == 5          \* working_memory[-5:]
Stage2MinL2 == 10        \* _consolidate_episodic_memory: len(L2) <= 10 -> return
Stage2Keep == 20         \* consolidated[:20]
Stage3Recent == 10       \* episodic_memory[-10:]
Stage4MinL1 == 10        \* _learn_procedures: len(L1) < 10 -> return
Stage4Recent == 20       \* working_memory[-20:]
Stage5MinFacts == 5      \* _resolve_contradictions: len(facts) < 5 -> return
MinuteWindow == 60       \* check_rate_limit: minute window, seconds
HourWindow == 3600       \* check_rate_limit: hour window, seconds
DayWindow == 86400       \* check_rate_limit: day window, seconds

VARIABLES
    working_memory,      \* L1: list of interactions
    episodic_memory,     \* L2: list of summaries
    semantic_memory,     \* L3
    procedural_memory,   \* L4
    now,                 \* the clock read by datetime.utcnow()
    lastCall,            \* the HierarchicalMemory method called last ("none" before)
    ctxArg,              \* max_items of that call when it was get_context, else 0
    ctxOut,              \* return value of the last call (<<>> for None)
    hist,                \* history: every interaction passed to add_interaction
    state,               \* Neuron.state
    chatPc,              \* per chat() call: the await it is suspended at
    full_response,       \* per chat() call: the fragments accumulated so far
    yielded,             \* per chat() call: the fragments yielded to the caller
    turnsStarted,        \* chat() calls made so far
    interactions_since_consolidation,
    last_consolidation,
    runs,                \* the _run_consolidation tasks created, in creation order
    llm_broker,          \* Neuron.llm_broker: "none", "raw" (constructed only), "ready"
    consolidator,        \* Neuron.consolidator is set
    initPc,              \* initialize(): "new" (not called), "failed", "ready"
    permission,          \* the tool_permissions row of (user, neuron, tool)
    rate_limit,          \* the tool_rate_limits row of (neuron, tool)
    req,                 \* per /execute request: position and locals of its handler
    executions,          \* per /execute request: its tool_executions row
    permissions,         \* the tool_permissions rows of (user, neuron, tool), by id
    permReq,             \* per grant or revoke request: position and answer
    confReq,             \* per /confirm request: position, answer and its runner
    tool,                \* the tools row of the tool the requests name
    fs,                  \* the last call of a filesystem tool and its outcome
    sh,                  \* the last call of a shell tool and its outcome
    ssh,                 \* the last call of the remote-command tool and its outcome
    neurons,             \* NeuronManager.neurons of the neuron id: its Neuron, 0 if absent
    instances,           \* the Neuron objects constructed for the id, in order
    chatReq              \* per chat_stream request: position and the Neuron it holds

memVars == <<working_memory, episodic_memory, semantic_memory, procedural_memory>>
callVars == <<lastCall, ctxArg, ctxOut, hist>>
chatVars == <<state, chatPc, full_response, yielded, turnsStarted>>
consVars == <<interactions_since_consolidation, last_consolidation, runs>>
toolVars == <<permission, rate_limit, req, executions>>
compVars == <<llm_broker, consolidator, initPc>>
grantVars == <<permissions, permReq>>
confVars == <<confReq>>
registryVars == <<tool>>
builtinVars == <<fs, sh, ssh>>
managerVars == <<neurons, instances, chatReq>>
nonMemVars == <<chatVars, consVars, compVars, toolVars, grantVars, confVars, registryVars,
      builtinVars, managerVars>>
nonNeuronVars == <<callVars, compVars, toolVars, grantVars, confVars, registryVars,
      builtinVars, managerVars>>
nonToolVars == <<memVars, callVars, chatVars, consVars, compVars, grantVars, confVars, registryVars,
      builtinVars, managerVars>>
nonGrantVars == <<memVars, callVars, chatVars, consVars, compVars, toolVars, confVars, registryVars,
      builtinVars, managerVars>>
nonConfVars == <<memVars, callVars, chatVars, consVars, compVars, grantVars, registryVars,
      builtinVars, managerVars>>
vars == <<working_memory, episodic_memory, semantic_memory, procedural_memory,
          now, lastCall, ctxArg, ctxOut, hist,
          state, chatPc, full_response, yielded, turnsStarted,
          interactions_since_consolidation, last_consolidation, runs,
          llm_broker, consolidator, initPc,
          permission, rate_limit, req, executions, permissions, permReq,
          confReq, tool, fs, sh, ssh, neurons, instances, chatReq>>

(***************************************************************************)
(* Python list slicing                                                     *)
(***************************************************************************)
Min(a, b) == IF a < b THEN a ELSE b
Max(a, b) == IF a > b THEN a ELSE b

\* a Python slice bound i on a list of length n, clamped into 0..n
PyIndex(i, n) == IF i < 0 THEN Max(n + i, 0) ELSE Min(i, n)

\* s[i:]
PySliceFrom(s, i) == SubSeq(s, PyIndex(i, Len(s)) + 1, Len(s))

\* s[:j]
PySliceTo(s, j) == SubSeq(s, 1, PyIndex(j, Len(s)))

(***************************************************************************)
(* Python dicts: functions on a finite set of string keys                  *)
(***************************************************************************)
EmptyDict == [k \in {} |-> 0]

\* d.get(key, default)
DictGet(d, key, default) == IF key \in DOMAIN d THEN d[key] ELSE default

\* d[key] = value
DictSet(d, key, value) ==
    [k \in (DOMAIN d) \cup {key} |-> IF k = key THEN value ELSE d[k]]

\* d.update(e): the keys of e are added, existing keys overwritten
DictUpdate(d, e) ==
    [k \in (DOMAIN d) \cup (DOMAIN e) |-> IF k \in DOMAIN e THEN e[k] ELSE d[k]]

(***************************************************************************)
(* HierarchicalMemory                                                      *)
(***************************************************************************)
\* (the metadata dict is stored and never read; it is left out)
NewInteraction(user_msg, assistant_msg, context, ts) ==
    [user |-> user_msg, assistant |-> assistant_msg, context |-> context,
     timestamp |-> ts]

\* the user questions of a batch, each truncated
UserQuestions(interactions) ==
    [k \in 1..Len(interactions) |-> PySliceTo(interactions[k].user, TruncateLen)]

compress_interactions(interactions, ts) ==
    IF interactions = <<>>
    THEN [empty |-> TRUE]
    ELSE [summary |-> PySliceTo(UserQuestions(interactions), SummaryTopics),
          timestamp_range |-> <<interactions[1].timestamp,
                                interactions[Len(interactions)].timestamp>>,
          interaction_count |-> Len(interactions),
          created_at |-> ts]

\* add_interaction compacting one append too early (>= instead of >)
add_interaction_early(wm, em, user_msg, assistant_msg, context, ts) ==
    LET appended == Append(wm, NewInteraction(user_msg, assistant_msg, context, ts))
    IN  IF Len(appended) >= WorkingMemoryMax
        THEN LET old_interactions == PySliceTo(appended, -WorkingMemoryMax)
             IN  [wm |-> PySliceFrom(appended, -WorkingMemoryMax),
                  em |-> Append(em, compress_interactions(old_interactions, ts))]
        ELSE [wm |-> appended, em |-> em]

\* add_interaction evicting the newest turns instead of the oldest
add_interaction_keep_oldest(wm, em, user_msg, assistant_msg, context, ts) ==
    LET appended == Append(wm, NewInteraction(user_msg, assistant_msg, context, ts))
    IN  IF Len(appended) > WorkingMemoryMax
        THEN LET old_interactions == PySliceFrom(appended, WorkingMemoryMax)
             IN  [wm |-> PySliceTo(appended, WorkingMemoryMax),
                  em |-> Append(em, compress_interactions(old_interactions, ts))]
        ELSE [wm |-> appended, em |-> em]

\* add_interaction that never compacts
add_interaction_nocompact(wm, em, user_msg, assistant_msg, context, ts) ==
    [wm |-> Append(wm, NewInteraction(user_msg, assistant_msg, context, ts)),
     em |-> em]

\* add_interaction as a function of (L1, L2): the pair of layers afterwards
add_interaction(wm, em, user_msg, assistant_msg, context, ts) ==
    LET appended == Append(wm, NewInteraction(user_msg, assistant_msg, context, ts))
    IN  IF Len(appended) > WorkingMemoryMax
        THEN LET old_interactions == PySliceTo(appended, -WorkingMemoryMax)
             IN  [wm |-> PySliceFrom(appended, -WorkingMemoryMax),
                  em |-> Append(em, compress_interactions(old_interactions, ts))]
        ELSE [wm |-> appended, em |-> em]

\* one formatted item: "User: ...\nAssistant: ..."
FormatItem(i) == << <<"User", i.user>>, <<"Assistant", i.assistant>> >>

RECURSIVE JoinItems(_)
\* "\n\n".join(items): one blank line between consecutive items
JoinItems(items) ==
    IF items = <<>> THEN <<>>
    ELSE IF Len(items) = 1 THEN items[1]
    ELSE items[1] \o << <<>> >> \o JoinItems(Tail(items))

get_context(wm, max_items) ==
    LET recent == PySliceFrom(wm, -max_items)
    IN  JoinItems([k \in 1..Len(recent) |-> FormatItem(recent[k])])

(***************************************************************************)
(* Neuron and MemoryConsolidator: state of an initialized, idle neuron     *)
(***************************************************************************)
TurnSlots == 1..MaxConcurrent    \* chat() calls that may be in progress together

\* the components after a successful initialize()
InitComponents ==
    /\ llm_broker = "ready"
    /\ consolidator = TRUE
    /\ initPc = "ready"

InitNeuronIdle ==
    /\ InitComponents
    /\ state = "idle"
    /\ chatPc = [t \in TurnSlots |-> "idle"]
    /\ full_response = [t \in TurnSlots |-> <<>>]
    /\ yielded = [t \in TurnSlots |-> <<>>]
    /\ turnsStarted = 0
    /\ interactions_since_consolidation = 0
    /\ last_consolidation = 0
    /\ runs = <<>>

(***************************************************************************)
(* Tool system: rows of one (user, neuron, tool), no request issued        *)
(***************************************************************************)
Reqs == 1..MaxReqs
NoTime == -1             \* a DateTime column that is NULL

\* via: "api" (POST /execute) or "llm" (a tool call emitted by the model);
\* work: the worker thread or subprocess of provider.execute
IdleReq == [pc |-> "idle", resp |-> "none", dry_run |-> FALSE, params_ok |-> TRUE,
            perm_uses |-> 0, now |-> 0, rl |-> <<>>, via |-> "api", work |-> "none",
            dur |-> 0]
\* output_result: "none", "simulated" or "real"; error_message: "none",
\* "error" or "timeout"; the three measures: "none" (NULL) or "set"
NoExecution == [status |-> "none", dry_run |-> FALSE, sandbox_id |-> "none",
                required_confirmation |-> FALSE, output_result |-> "none",
                error_message |-> "none", duration_ms |-> "none",
                cpu_time_ms |-> "none", memory_peak_mb |-> "none"]

GrantedPermission ==
    [active |-> TRUE, revoked_at |-> NoTime, expires_at |-> NoTime,
     max_daily_uses |-> 0, max_total_uses |-> max_total_uses, current_uses |-> 0,
     scopes |-> {"execute"}, require_confirmation |-> FALSE]

PermReqs == 1..MaxPermReqs
IdlePermReq == [kind |-> "none", pc |-> "idle", resp |-> "none", target |-> 0]

ConfReqs == 1..MaxConfirms
\* the principals: every /execute request is made by "requester", whose id
\* the execution row carries as user_id
Users == {"requester", "other"}
IdleConfReq == [pc |-> "idle", resp |-> "none", confirm |-> FALSE, target |-> 0,
                user |-> "requester", perm_uses |-> 0, torn_down |-> FALSE,
                sandbox |-> "none"]

\* the tools row explored by default: a built-in provider serves its category
TheTool == [privacy_tier |-> privacy_tier, has_provider |-> TRUE,
            estimated_duration_ms |-> 0,
            max_concurrent_executions |-> max_concurrent_executions]

InitRegistry == tool = TheTool

\* no built-in tool was called
NoPath == <<"-">>
IdleFs == [tool |-> "none", op |-> "none", abs |-> FALSE, segs |-> <<>>,
           result |-> "none", accessed |-> NoPath]
IdleSh == [tool |-> "none", cmd |-> <<>>, result |-> "none"]
IdleSsh == [path |-> "none", cmd |-> <<>>, result |-> "none", dangerous |-> "none",
            confirmed |-> FALSE]
InitBuiltinIdle == fs = IdleFs /\ sh = IdleSh /\ ssh = IdleSsh

\* the NeuronManager holds no Neuron of the id, no chat request was made
ChatReqs == 1..MaxChatReqs
IdleChatReq == [pc |-> "idle", neuron |-> 0]
InitManagerIdle ==
    /\ neurons = 0
    /\ instances = <<>>
    /\ chatReq = [c \in ChatReqs |-> IdleChatReq]

\* no permission was granted through the API, no grant, revoke or confirm
\* request
InitGrantsIdle ==
    /\ permissions = <<>>
    /\ permReq = [g \in PermReqs |-> IdlePermReq]
    /\ confReq = [c \in ConfReqs |-> IdleConfReq]

InitToolsIdle ==
    /\ InitGrantsIdle
    /\ InitBuiltinIdle
    /\ InitManagerIdle
    /\ InitRegistry
    /\ permission = GrantedPermission
    /\ rate_limit = [exists |-> FALSE]
    /\ req = [q \in Reqs |-> IdleReq]
    /\ executions = [q \in Reqs |-> NoExecution]

(***************************************************************************)
(* SpecMem: a fresh HierarchicalMemory, add_interaction and get_context    *)
(***************************************************************************)
InitMemory ==
    /\ working_memory = <<>>
    /\ episodic_memory = <<>>
    /\ semantic_memory = EmptyDict
    /\ procedural_memory = EmptyDict

InitCalls ==
    /\ lastCall = "none"
    /\ ctxArg = 0
    /\ ctxOut = <<>>
    /\ hist = <<>>

InitMem ==
    /\ InitMemory
    /\ now = 0
    /\ InitCalls
    /\ InitNeuronIdle
    /\ InitToolsIdle

MemAddInteraction(user_msg, assistant_msg) ==
    /\ Len(hist) < MaxAdds
    /\ \E ts \in now..Min(now + 1, MaxNowMem) :
         LET r == add_interaction(working_memory, episodic_memory,
                                  user_msg, assistant_msg, "", ts)
         IN  /\ working_memory' = r.wm
             /\ episodic_memory' = r.em
             /\ now' = ts
             /\ hist' = Append(hist, NewInteraction(user_msg, assistant_msg, "", ts))
    /\ lastCall' = "add_interaction"
    /\ ctxArg' = 0
    /\ ctxOut' = <<>>
    /\ UNCHANGED <<semantic_memory, procedural_memory, nonMemVars>>

\* get_context that consumes the turns it returns
MemGetContext_consuming(max_items) ==
    /\ lastCall' = "get_context"
    /\ ctxArg' = max_items
    /\ ctxOut' = get_context(working_memory, max_items)
    /\ working_memory' = PySliceTo(working_memory, -max_items)
    /\ UNCHANGED <<episodic_memory, semantic_memory, procedural_memory, now, hist,
                   nonMemVars>>

MemGetContext(max_items) ==
    /\ lastCall' = "get_context"
    /\ ctxArg' = max_items
    /\ ctxOut' = get_context(working_memory, max_items)
    /\ UNCHANGED <<working_memory, episodic_memory, semantic_memory,
                   procedural_memory, now, hist, nonMemVars>>

NextMem ==
    \/ \E u \in Msgs, a \in Replies : MemAddInteraction(u, a)
    \/ \E m \in 0..MaxItemsArg : MemGetContext(m)

SpecMem == InitMem /\ [][NextMem]_vars

(***************************************************************************)
(* Claims checked under SpecMem                                            *)
(***************************************************************************)
AddCalls == Len(hist)            \* K: add_interaction calls so far

\* C6: after K > N add_interaction calls on a fresh memory, len(L1) = N and
\* len(L2) = K - N (one episodic entry per overflowing append).
C6_CountsAfterKAdds ==
    AddCalls > WorkingMemoryMax =>
        /\ Len(working_memory) = WorkingMemoryMax
        /\ Len(episodic_memory) = AddCalls - WorkingMemoryMax

C6_Witness ==
    /\ AddCalls = WorkingMemoryMax + 1
    /\ Len(episodic_memory) = 1

\* the step is an add_interaction call
IsAddStep == Len(hist') = Len(hist) + 1

\* the turns an overflowing append evicts: the oldest ones of L1 + new turn
EvictedBy(wm, turn) ==
    LET all == Append(wm, turn)
    IN  SubSeq(all, 1, Len(all) - WorkingMemoryMax)

C7_RecentTurns ==
    /\ Len(working_memory) = Min(AddCalls, WorkingMemoryMax)
    /\ \A k \in 1..Len(working_memory) :
          working_memory[k] = hist[AddCalls - Len(working_memory) + k]

C7_EvictionStep ==
    IsAddStep =>
        LET turn == hist'[Len(hist')]
            evicted == EvictedBy(working_memory, turn)
        IN  IF Len(working_memory) + 1 > WorkingMemoryMax
            THEN /\ Len(episodic_memory') = Len(episodic_memory) + 1
                 /\ SubSeq(episodic_memory', 1, Len(episodic_memory)) = episodic_memory
                 /\ LET e == episodic_memory'[Len(episodic_memory')]
                    IN  /\ e.interaction_count = Len(evicted)
                        /\ e.timestamp_range = <<evicted[1].timestamp,
                                                 evicted[Len(evicted)].timestamp>>
                 /\ \A k \in 1..Len(evicted) : evicted[k] = hist[Len(hist) - WorkingMemoryMax + k]
            ELSE episodic_memory' = episodic_memory

\* C7: after every add_interaction L1 is exactly the most recent min(K, N)
\* turns in arrival order; an append that overflows L1 creates exactly one
\* new L2 entry whose interaction_count is the number of evicted turns and
\* whose timestamp range is that of the evicted (oldest) turns.
C7_AddInteractionContract == [](C7_RecentTurns) /\ [][C7_EvictionStep]_vars

C7_Witness ==
    /\ AddCalls = WorkingMemoryMax + 1
    /\ Len(episodic_memory) = 1
    /\ episodic_memory[1].interaction_count = 1
    /\ working_memory[1] = hist[2]
    /\ hist[1].user # hist[2].user

\* the step is a get_context call
IsGetContextStep == lastCall' = "get_context"

\* C8: get_context leaves L1..L4 unchanged, and a call that directly follows
\* a call with the same max_items returns the same output.
C8_GetContextPure ==
    [][IsGetContextStep =>
         /\ memVars' = memVars
         /\ (lastCall = "get_context" /\ ctxArg = ctxArg' => ctxOut' = ctxOut)]_vars

C8_Witness ==
    /\ lastCall = "get_context"
    /\ ctxArg = 2
    /\ Len(working_memory) >= 2
    /\ Len(ctxOut) = 5

\* the lines the claim expects: the most recent min(max_items, len(L1))
\* turns, oldest first, a User line then an Assistant line per turn,
\* consecutive turns separated by a blank line
ExpectedTurns(wm, max_items) ==
    LET n == Min(max_items, Len(wm))
    IN  [k \in 1..n |-> wm[Len(wm) - n + k]]

RECURSIVE ExpectedLines(_)
ExpectedLines(turns) ==
    IF turns = <<>> THEN <<>>
    ELSE << <<"User", turns[1].user>>, <<"Assistant", turns[1].assistant>> >>
         \o (IF Len(turns) > 1 THEN << <<>> >> ELSE <<>>)
         \o ExpectedLines(Tail(turns))

\* number of turns in a get_context output
TurnsIn(out) == Cardinality({k \in 1..Len(out) : Len(out[k]) = 2 /\ out[k][1] = "User"})

\* C9: for every max_items >= 0 get_context returns exactly the most recent
\* min(max_items, len(L1)) turns, oldest first, and never more than
\* max_items turns.
C9_GetContextRecent ==
    lastCall = "get_context" =>
        /\ ctxOut = ExpectedLines(ExpectedTurns(working_memory, ctxArg))
        /\ TurnsIn(ctxOut) <= ctxArg

(***************************************************************************)
(* SpecNeuron: one initialized Neuron on one asyncio event loop.           *)
(* Every action is the code one task runs between two suspension points    *)
(* (await / yield); tasks interleave only there.                           *)
(* The neuron has the default configuration without retrieval (self.axon   *)
(* is None, context = ""), so chat() awaits get_tools_for_llm and every    *)
(* fragment of llm_broker.stream.                                          *)
(***************************************************************************)
RECURSIVE SeedFrom(_, _)
\* K more turns ("a" answered <<"x">>, at time 0) on the layers m; the test of
\* Len(m.wm) has m evaluated before the next call is made
SeedFrom(m, K) ==
    IF Len(m.wm) >= 0 /\ K = 0 THEN m
    ELSE SeedFrom(add_interaction(m.wm, m.em, "a", <<"x">>, "", 0), K - 1)

\* the layers after K turns on a fresh memory
SeedMemory(K) == SeedFrom([wm |-> <<>>, em |-> <<>>], K)

InitNeuron ==
    /\ \E K \in SeedAdds :
         /\ working_memory = SeedMemory(K).wm
         /\ episodic_memory = SeedMemory(K).em
         /\ interactions_since_consolidation = K
    /\ semantic_memory = EmptyDict
    /\ procedural_memory = EmptyDict
    /\ now = 0
    /\ InitCalls
    /\ InitToolsIdle
    /\ InitComponents
    /\ state = "idle"
    /\ chatPc = [t \in TurnSlots |-> "idle"]
    /\ full_response = [t \in TurnSlots |-> <<>>]
    /\ yielded = [t \in TurnSlots |-> <<>>]
    /\ turnsStarted = 0
    /\ last_consolidation = 0
    /\ runs = <<>>

\* MemoryConsolidator.should_consolidate
should_consolidate(count, em, t, last) ==
    \/ count >= consolidation_threshold
    \/ Len(em) > max_l2_size
    \/ t - last > ConsolidationAge

\* chat() up to its first await: state = THINKING, the prompt is built from
\* get_context(3) (a read of L1 only), then await get_tools_for_llm
ChatStart(t) ==
    /\ chatPc[t] = "idle"
    /\ \A u \in TurnSlots : u < t => chatPc[u] # "idle"
    /\ turnsStarted < MaxTurns
    /\ turnsStarted' = turnsStarted + 1
    /\ state' = "thinking"
    /\ full_response' = [full_response EXCEPT ![t] = <<>>]
    /\ yielded' = [yielded EXCEPT ![t] = <<>>]
    /\ chatPc' = [chatPc EXCEPT ![t] = "tools"]
    /\ UNCHANGED <<memVars, now, nonNeuronVars, consVars>>

\* get_tools_for_llm returned: the model stream is opened (with llm_broker
\* None the call of .stream raises instead: ChatError)
ChatTools(t) ==
    /\ chatPc[t] = "tools"
    /\ llm_broker # "none"
    /\ chatPc' = [chatPc EXCEPT ![t] = "stream"]
    /\ UNCHANGED <<memVars, now, nonNeuronVars, consVars,
                   state, full_response, yielded, turnsStarted>>

\* the stream delivers a fragment: it is accumulated and yielded
ChatChunk(t, chunk) ==
    /\ chatPc[t] = "stream"
    /\ Len(full_response[t]) < MaxChunks
    /\ full_response' = [full_response EXCEPT ![t] = Append(@, chunk)]
    /\ yielded' = [yielded EXCEPT ![t] = Append(@, chunk)]
    /\ UNCHANGED <<memVars, now, nonNeuronVars, consVars, state, chatPc, turnsStarted>>

NewRun == [pc |-> "created", stage |-> 0, snap |-> <<>>, result |-> "none"]

\* chat() that awaits the consolidation it starts
ChatFinish_awaiting(t) ==
    /\ chatPc[t] = "stream"
    /\ LET r == add_interaction(working_memory, episodic_memory,
                                "a", full_response[t], "", now)
           count == interactions_since_consolidation + 1
       IN  /\ working_memory' = r.wm
           /\ episodic_memory' = r.em
           /\ interactions_since_consolidation' = count
           /\ IF should_consolidate(count, r.em, now, last_consolidation)
              THEN /\ runs' = Append(runs, NewRun)
                   /\ chatPc' = [chatPc EXCEPT ![t] = "consolidating"]
                   /\ state' = state
              ELSE /\ runs' = runs
                   /\ chatPc' = [chatPc EXCEPT ![t] = "idle"]
                   /\ state' = "idle"
    /\ full_response' = [full_response EXCEPT ![t] = <<>>]
    /\ yielded' = [yielded EXCEPT ![t] = <<>>]
    /\ UNCHANGED <<semantic_memory, procedural_memory, now, nonNeuronVars,
                   turnsStarted, last_consolidation>>

\* the stream is exhausted: steps 6 and 7 of chat() run without suspension
ChatFinish(t) ==
    /\ chatPc[t] = "stream"
    /\ LET r == add_interaction(working_memory, episodic_memory,
                                "a", full_response[t], "", now)
           count == interactions_since_consolidation + 1
       IN  /\ working_memory' = r.wm
           /\ episodic_memory' = r.em
           /\ IF consolidator
              THEN /\ interactions_since_consolidation' = count
                   /\ runs' = IF should_consolidate(count, r.em, now, last_consolidation)
                              THEN Append(runs, NewRun)
                              ELSE runs
              ELSE UNCHANGED <<interactions_since_consolidation, runs>>
    /\ state' = "idle"
    /\ chatPc' = [chatPc EXCEPT ![t] = "idle"]
    /\ full_response' = [full_response EXCEPT ![t] = <<>>]
    /\ yielded' = [yielded EXCEPT ![t] = <<>>]
    /\ UNCHANGED <<semantic_memory, procedural_memory, now, nonNeuronVars,
                   turnsStarted, last_consolidation>>

\* chat() that stores what was streamed before the failure
ChatError_appending(t) ==
    /\ chatPc[t] \in {"tools", "stream"}
    /\ state' = "error"
    /\ yielded' = [yielded EXCEPT ![t] = Append(@, "[Error]")]
    /\ full_response' = [full_response EXCEPT ![t] = <<>>]
    /\ chatPc' = [chatPc EXCEPT ![t] = "idle"]
    /\ working_memory' = Append(working_memory,
                                NewInteraction("a", full_response[t], "", now))
    /\ UNCHANGED <<episodic_memory, semantic_memory, procedural_memory,
                   now, nonNeuronVars, consVars, turnsStarted>>

\* an awaited call of the turn raises: except branch of chat()
ChatError(t) ==
    /\ chatPc[t] \in {"tools", "stream"}
    /\ state' = "error"
    /\ yielded' = [yielded EXCEPT ![t] = Append(@, "[Error]")]
    /\ full_response' = [full_response EXCEPT ![t] = <<>>]
    /\ chatPc' = [chatPc EXCEPT ![t] = "idle"]
    /\ UNCHANGED <<memVars, now, nonNeuronVars, consVars, turnsStarted>>

\* chat() raises while it builds the prompt, before its first await: the
\* except branch runs in the step in which the turn began
ChatStartError(t) ==
    /\ chatPc[t] = "idle"
    /\ \A u \in TurnSlots : u < t => chatPc[u] # "idle"
    /\ turnsStarted < MaxTurns
    /\ turnsStarted' = turnsStarted + 1
    /\ state' = "error"
    /\ full_response' = [full_response EXCEPT ![t] = <<>>]
    /\ yielded' = [yielded EXCEPT ![t] = <<"[Error]">>]
    /\ UNCHANGED <<memVars, now, nonNeuronVars, consVars, chatPc>>

TickNeuron ==
    /\ now + DayJump <= MaxNowNeuron
    /\ now' = now + DayJump
    /\ UNCHANGED <<memVars, nonNeuronVars, chatVars, consVars>>

(***************************************************************************)
(* MemoryConsolidator.consolidate: five stages, each suspended in _ask_llm *)
(***************************************************************************)
Stages == 1..5

Facts(sm) == DictGet(sm, "facts", <<>>)

\* the early-return test at the head of each stage
StageRuns(k, wm, em, sm) ==
    CASE k = 1 -> ~(Len(wm) < Stage1MinL1)
      [] k = 2 -> ~(Len(em) <= Stage2MinL2)
      [] k = 3 -> TRUE
      [] k = 4 -> ~(Len(wm) < Stage4MinL1)
      [] k = 5 -> ~(Len(Facts(sm)) < Stage5MinFacts)

\* what a stage reads into its prompt before it awaits the model
StageReads(k, wm, em, sm) ==
    CASE k = 1 -> PySliceFrom(wm, -Stage1Recent)
      [] k = 2 -> em
      [] k = 3 -> PySliceFrom(em, -Stage3Recent)
      [] k = 4 -> PySliceFrom(wm, -Stage4Recent)
      [] k = 5 -> Facts(sm)

RECURSIVE NextAwait(_, _, _, _)
\* the first stage from k on that reaches its _ask_llm (6: none, run ends)
NextAwait(k, wm, em, sm) ==
    IF k > 5 THEN 6
    ELSE IF StageRuns(k, wm, em, sm) THEN k
    ELSE NextAwait(k + 1, wm, em, sm)

\* the run record once the task has run from the head of stage k to its next
\* suspension, or to the end of consolidate()
RunAt(k, wm, em, sm) ==
    LET j == NextAwait(k, wm, em, sm)
    IN  IF j = 6
        THEN [pc |-> "done", stage |-> 0, snap |-> <<>>, result |-> "success"]
        ELSE [pc |-> "llm", stage |-> j, snap |-> StageReads(j, wm, em, sm),
              result |-> "none"]

\* the model's replies explored, per stage
Stage2Reply(n) == [k \in 1..n |-> [summary |-> "merged", importance |-> 5]]
Stage3Reply == [entities |-> [e1 |-> "d1"],
                facts |-> <<"f1", "f2", "f3", "f4", "f5">>,
                preferences |-> [p1 |-> "v1"]]
Stage4Reply == [workflows |-> << [name |-> "w1", steps |-> <<"s1", "s2">>,
                                   frequency |-> "high"] >>]
Stage5Reply(facts) ==
    [validated_facts |-> PySliceTo(facts, 2),
     contradictions |-> << [fact1 |-> "f3", fact2 |-> "f4", resolution |-> "r1"] >>]

\* a stage-2 reply that is a JSON array whose objects lack "summary"
Stage2ReplyNoSummary == << [importance |-> 5], [importance |-> 7] >>
\* the well-typed fields of a stage-3 reply whose "facts" is a JSON number
Stage3ReplyBadFacts == [entities |-> [e1 |-> "d1"], preferences |-> [p1 |-> "v1"]]

\* what _ask_llm can hand to stage k: it raises ("raise"), or it returns text
\* that json.loads rejects ("bad_json"), that is JSON of another type than the
\* prompt asks for ("wrong_type": an object for stage 2, an array for stages
\* 3 to 5), that lacks a field ("missing_field": the array's objects have no
\* "summary" in stage 2, a contradiction has no "resolution" in stage 5),
\* that has an ill-typed field ("ill_typed": "facts" is a number in stage 3),
\* or that is as the prompt asks ("ok")
LLMOutcomes(k, snap) ==
    CASE k = 1 -> {[kind |-> "raise"], [kind |-> "ok", text |-> "summary"]}
      [] k = 2 -> {[kind |-> "raise"], [kind |-> "bad_json"], [kind |-> "wrong_type"],
                   [kind |-> "missing_field", json |-> Stage2ReplyNoSummary]}
                  \cup {[kind |-> "ok", json |-> Stage2Reply(n)] : n \in {2, 21}}
      [] k = 3 -> {[kind |-> "raise"], [kind |-> "bad_json"], [kind |-> "wrong_type"],
                   [kind |-> "ill_typed", json |-> Stage3ReplyBadFacts],
                   [kind |-> "ok", json |-> Stage3Reply]}
      [] k = 4 -> {[kind |-> "raise"], [kind |-> "bad_json"], [kind |-> "wrong_type"],
                   [kind |-> "ok", json |-> Stage4Reply]}
      [] k = 5 -> {[kind |-> "raise"], [kind |-> "bad_json"], [kind |-> "wrong_type"],
                   [kind |-> "missing_field"],
                   [kind |-> "ok", json |-> Stage5Reply(snap)]}
      [] OTHER -> {}

\* the four layers after stage k has processed a reply that did not raise
StageEffect(k, o, snap, wm, em, sm, pm, t) ==
    IF o.kind = "bad_json"
    THEN [wm |-> wm, em |-> em, sm |-> sm, pm |-> pm]
    ELSE CASE k = 1 ->
                [wm |-> PySliceFrom(wm, -Stage1Keep),
                 em |-> Append(em, [summary |-> o.text, timestamp |-> t,
                                    interaction_count |-> Len(snap)]),
                 sm |-> sm, pm |-> pm]
           [] k = 2 ->
                \* consolidated[:20] raises on an object and slices any array
                IF o.kind = "wrong_type"
                THEN [wm |-> wm, em |-> em, sm |-> sm, pm |-> pm]
                ELSE [wm |-> wm, em |-> PySliceTo(o.json, Stage2Keep),
                      sm |-> sm, pm |-> pm]
           [] k = 3 ->
                \* no key is "in" an array; extend() raises on a number after
                \* the entities were merged and "facts" was set by setdefault
                IF o.kind = "wrong_type"
                THEN [wm |-> wm, em |-> em, sm |-> sm, pm |-> pm]
                ELSE LET s1 == DictSet(sm, "entities",
                                  DictUpdate(DictGet(sm, "entities", EmptyDict),
                                             o.json.entities))
                         s2 == DictSet(s1, "facts",
                                  IF o.kind = "ill_typed" THEN Facts(s1)
                                  ELSE Facts(s1) \o o.json.facts)
                         s3 == IF o.kind = "ill_typed" THEN s2
                               ELSE DictSet(s2, "preferences",
                                      DictUpdate(DictGet(s2, "preferences", EmptyDict),
                                                 o.json.preferences))
                     IN  [wm |-> wm, em |-> em, sm |-> s3, pm |-> pm]
           [] k = 4 ->
                \* setdefault("workflows", []) runs before workflows.get raises
                [wm |-> wm, em |-> em, sm |-> sm,
                 pm |-> DictSet(pm, "workflows",
                                IF o.kind = "wrong_type"
                                THEN DictGet(pm, "workflows", <<>>)
                                ELSE DictGet(pm, "workflows", <<>>) \o o.json.workflows)]
           [] k = 5 ->
                \* resolution.get and r["resolution"] raise before the assignment
                IF o.kind \in {"wrong_type", "missing_field"}
                THEN [wm |-> wm, em |-> em, sm |-> sm, pm |-> pm]
                ELSE [wm |-> wm, em |-> em, pm |-> pm,
                      sm |-> DictSet(sm, "facts",
                               o.json.validated_facts
                               \o [i \in 1..Len(o.json.contradictions) |->
                                     o.json.contradictions[i].resolution])]

\* the replies explored in SpecNeuron: the model raises or answers well-formed
\* JSON within the size asked for
NeuronLLMOutcomes(k, snap) ==
    {o \in LLMOutcomes(k, snap) :
        /\ o.kind \in {"raise", "ok"}
        /\ (k = 2 /\ o.kind = "ok") => Len(o.json) <= Stage2Keep}

RunIds == 1..Len(runs)

\* the detached task starts: consolidate() runs up to its first _ask_llm
ConsBegin(r) ==
    /\ runs[r].pc = "created"
    /\ LET run == RunAt(1, working_memory, episodic_memory, semantic_memory)
       IN  /\ runs' = [runs EXCEPT ![r] = run]
           /\ IF run.pc = "done"
              THEN /\ last_consolidation' = now
                   /\ interactions_since_consolidation' = 0
              ELSE UNCHANGED <<last_consolidation, interactions_since_consolidation>>
    /\ UNCHANGED <<memVars, now, nonNeuronVars, chatVars>>

\* consolidate() that undoes the episode of stage 1 when a later stage raises
ConsReply_rollback(r, o) ==
    /\ runs[r].pc = "llm"
    /\ o \in LLMOutcomes(runs[r].stage, runs[r].snap)
    /\ IF o.kind = "raise"
       THEN /\ runs' = [runs EXCEPT ![r] = [pc |-> "done", stage |-> 0,
                                             snap |-> <<>>, result |-> "failed"]]
            /\ episodic_memory' = PySliceTo(episodic_memory, -1)
            /\ UNCHANGED <<working_memory, semantic_memory, procedural_memory,
                           last_consolidation, interactions_since_consolidation>>
       ELSE LET m == StageEffect(runs[r].stage, o, runs[r].snap, working_memory,
                                 episodic_memory, semantic_memory,
                                 procedural_memory, now)
                run == RunAt(runs[r].stage + 1, m.wm, m.em, m.sm)
            IN  /\ working_memory' = m.wm
                /\ episodic_memory' = m.em
                /\ semantic_memory' = m.sm
                /\ procedural_memory' = m.pm
                /\ runs' = [runs EXCEPT ![r] = run]
                /\ IF run.pc = "done"
                   THEN /\ last_consolidation' = now
                        /\ interactions_since_consolidation' = 0
                   ELSE UNCHANGED <<last_consolidation,
                                    interactions_since_consolidation>>
    /\ UNCHANGED <<now, nonNeuronVars, chatVars>>

\* _ask_llm of the stage in flight returns or raises; the task runs on to the
\* next _ask_llm or to the end of consolidate()
ConsReply(r, o) ==
    /\ runs[r].pc = "llm"
    /\ o \in LLMOutcomes(runs[r].stage, runs[r].snap)
    /\ IF o.kind = "raise"
       THEN /\ runs' = [runs EXCEPT ![r] = [pc |-> "done", stage |-> 0,
                                             snap |-> <<>>, result |-> "failed"]]
            /\ UNCHANGED <<memVars, last_consolidation,
                           interactions_since_consolidation>>
       ELSE LET m == StageEffect(runs[r].stage, o, runs[r].snap, working_memory,
                                 episodic_memory, semantic_memory,
                                 procedural_memory, now)
                run == RunAt(runs[r].stage + 1, m.wm, m.em, m.sm)
            IN  /\ working_memory' = m.wm
                /\ episodic_memory' = m.em
                /\ semantic_memory' = m.sm
                /\ procedural_memory' = m.pm
                /\ runs' = [runs EXCEPT ![r] = run]
                /\ IF run.pc = "done"
                   THEN /\ last_consolidation' = now
                        /\ interactions_since_consolidation' = 0
                   ELSE UNCHANGED <<last_consolidation,
                                    interactions_since_consolidation>>
    /\ UNCHANGED <<now, nonNeuronVars, chatVars>>

NextNeuron ==
    \/ \E t \in TurnSlots : ChatStart(t)
    \/ \E t \in TurnSlots : ChatTools(t)
    \/ \E t \in TurnSlots, c \in Chunks : ChatChunk(t, c)
    \/ \E t \in TurnSlots : ChatFinish(t)
    \/ \E t \in TurnSlots : ChatError(t)
    \/ \E t \in TurnSlots : ChatStartError(t)
    \/ TickNeuron
    \/ \E r \in RunIds : ConsBegin(r)
    \/ \E r \in RunIds :
         \E o \in NeuronLLMOutcomes(runs[r].stage, runs[r].snap) : ConsReply(r, o)

SpecNeuron == InitNeuron /\ [][NextNeuron]_vars

(***************************************************************************)
(* Claims checked under SpecNeuron                                         *)
(***************************************************************************)
\* a consolidation stage has read its layer and awaits the model
InStage(r) == runs[r].pc = "llm"

\* the step is the add_interaction of a chat() turn
IsTurnAppendStep ==
    \E t \in TurnSlots :
        /\ chatPc[t] = "stream"
        /\ chatPc'[t] # "stream"
        /\ <<working_memory, episodic_memory>>' # <<working_memory, episodic_memory>>

\* C3: memory mutation is mutually exclusive per agent: no add_interaction
\* takes effect while a consolidation stage is between its read and its
\* write-back, and no two stages of the agent are in progress together.
C3_MemoryMutualExclusion ==
    /\ [](Cardinality({r \in RunIds : InStage(r)}) <= 1)
    /\ [][(\E r \in RunIds : InStage(r)) => ~IsTurnAppendStep]_vars

\* C4: at most one chat() turn of the agent is between its start and its end.
C4_TurnsSerialized ==
    Cardinality({t \in TurnSlots : chatPc[t] # "idle"}) <= 1

\* C5: whenever no add_interaction is mid-execution (add_interaction runs
\* without suspension, so in every state) L1 holds at most 10 entries.
C5_WorkingMemoryBounded == Len(working_memory) <= WorkingMemoryMax

\* an overflowing append compacted into L2, then stage 1 of a run cut L1
C5_Witness ==
    /\ Len(working_memory) = Stage1Keep
    /\ Len(episodic_memory) = 2
    /\ "timestamp_range" \in DOMAIN episodic_memory[1]
    /\ episodic_memory[1].created_at = DayJump
    /\ "timestamp" \in DOMAIN episodic_memory[2]

\* the step completes a chat() turn normally
IsTurnFinishStep(t) ==
    /\ chatPc[t] = "stream"
    /\ chatPc'[t] = "idle"
    /\ <<working_memory, episodic_memory>>' # <<working_memory, episodic_memory>>

C10_FinishStep ==
    \A t \in TurnSlots :
        IsTurnFinishStep(t) =>
            /\ state' = "idle"
            /\ yielded[t] = full_response[t]
            /\ IF should_consolidate(interactions_since_consolidation',
                                     episodic_memory', now', last_consolidation')
               THEN /\ Len(runs') = Len(runs) + 1
                    /\ runs'[Len(runs')].pc = "created"
               ELSE runs' = runs

C10_CreateStep ==
    Len(runs') > Len(runs) =>
        /\ \E t \in TurnSlots : IsTurnFinishStep(t)
        /\ should_consolidate(interactions_since_consolidation',
                              episodic_memory', now', last_consolidation')

\* C10: a turn after which should_consolidate() holds creates the
\* consolidation task and completes in the same step (fragments delivered,
\* state Idle) while that task has not run; no task is created otherwise.
C10_ConsolidationDetached == [][C10_FinishStep /\ C10_CreateStep]_vars

\* the turns are over and the neuron is Idle while the run is still awaiting
\* the model
C10_Witness ==
    /\ \A t \in TurnSlots : chatPc[t] = "idle"
    /\ state = "idle"
    /\ Len(runs) = 1
    /\ runs[1].pc = "llm"

\* the step belongs to turn t: its position or its stream changes
IsTurnStep(t) == chatPc'[t] # chatPc[t] \/ yielded'[t] # yielded[t]

\* the error fragments among the fragments yielded to the caller of turn t
ErrorFragments(t) == {k \in 1..Len(yielded'[t]) : yielded'[t][k] = "[Error]"}

\* C14: when a step of a chat turn raises (while the prompt is built, in the
\* tool listing or in the model stream) the state becomes Error, the stream
\* of the turn ends with its only error fragment, and the four layers are
\* unchanged; no step of a turn other than its normal completion writes to
\* Memory, so the failed turn is never appended.
C14_FailedTurnLeavesMemory ==
    [][\A t \in TurnSlots :
         /\ (ChatError(t) \/ ChatStartError(t)) =>
               /\ state' = "error"
               /\ chatPc'[t] = "idle"
               /\ ErrorFragments(t) = {Len(yielded'[t])}
               /\ memVars' = memVars
         /\ (IsTurnStep(t) /\ ~ChatFinish(t)) => memVars' = memVars]_vars

\* a turn failed in the model stream after a fragment was delivered: the
\* neuron is in Error, the 9 earlier turns are all that L1 holds
C14_Witness ==
    /\ state = "error"
    /\ \E t \in TurnSlots : chatPc[t] = "idle" /\ yielded[t] = <<"x", "[Error]">>
    /\ turnsStarted = 1
    /\ Len(working_memory) = 9
    /\ interactions_since_consolidation = 9

(***************************************************************************)
(* SpecTools: concurrent POST /execute requests of one user for one        *)
(* (neuron, tool), each in its own database session.  A session reads a    *)
(* row when its SELECT returns and writes the values it holds when it      *)
(* commits; no row is locked.  Every action is the code one request runs   *)
(* between two awaits (the awaits on the static Tool row and on the        *)
(* insert of the execution row are folded into the step before them).      *)
(***************************************************************************)
\* ToolPermission.is_valid at time t
is_valid(p, t) ==
    IF ~p.active \/ p.revoked_at # NoTime THEN FALSE
    ELSE IF p.expires_at # NoTime /\ t > p.expires_at THEN FALSE
    ELSE IF p.max_total_uses # 0 /\ p.current_uses >= p.max_total_uses THEN FALSE
    ELSE TRUE

ExistingRateLimit(t) ==
    [exists |-> TRUE, minute_window |-> t, hour_window |-> t, day_window |-> t,
     minute_count |-> 0, hour_count |-> 0, day_count |-> 0,
     last_execution |-> NoTime]

InitTools ==
    /\ InitMemory
    /\ now = 0
    /\ InitCalls
    /\ InitNeuronIdle
    /\ InitGrantsIdle
    /\ InitBuiltinIdle
    /\ InitManagerIdle
    /\ InitRegistry
    /\ permission = GrantedPermission
    /\ rate_limit \in {[exists |-> FALSE], ExistingRateLimit(0)}
    /\ req = [q \in Reqs |-> IdleReq]
    /\ executions = [q \in Reqs |-> NoExecution]

\* a request arrives: the permission query is issued
ExecRequest(q, dry_run, params_ok) ==
    /\ req[q].pc = "idle"
    /\ \A p \in Reqs : p < q => req[p].pc # "idle"
    /\ req' = [req EXCEPT ![q] = [@ EXCEPT !.pc = "perm", !.dry_run = dry_run,
                                            !.params_ok = params_ok]]
    /\ UNCHANGED <<nonToolVars, now, permission, rate_limit, executions>>

\* the permission query returns: validity and scope are tested on the row as
\* read; check_rate_limit takes "now" and issues its SELECT
ExecPermission(q) ==
    /\ req[q].pc = "perm"
    /\ IF ~permission.active \/ ~is_valid(permission, now)
          \/ "execute" \notin permission.scopes
       THEN req' = [req EXCEPT ![q] = [@ EXCEPT !.pc = "done", !.resp = "403"]]
       ELSE req' = [req EXCEPT ![q] = [@ EXCEPT !.pc = "rl_select",
                                               !.perm_uses = permission.current_uses,
                                               !.now = now]]
    /\ UNCHANGED <<nonToolVars, now, permission, rate_limit, executions>>

\* check_rate_limit that never rolls the minute window forward
ResetWindows_hourly(rl, t) ==
    LET r2 == IF t - rl.hour_window > HourWindow
              THEN [rl EXCEPT !.hour_window = t, !.hour_count = 0] ELSE rl
    IN  IF t - r2.day_window > DayWindow
        THEN [r2 EXCEPT !.day_window = t, !.day_count = 0] ELSE r2

\* windows rolled forward when stale (check_rate_limit, "Reset windows")
ResetWindows(rl, t) ==
    LET r1 == IF t - rl.minute_window > MinuteWindow
              THEN [rl EXCEPT !.minute_window = t, !.minute_count = 0] ELSE rl
        r2 == IF t - r1.hour_window > HourWindow
              THEN [r1 EXCEPT !.hour_window = t, !.hour_count = 0] ELSE r1
    IN  IF t - r2.day_window > DayWindow
        THEN [r2 EXCEPT !.day_window = t, !.day_count = 0] ELSE r2

\* "Check limits": TRUE when a ceiling is reached
LimitReached(rl) ==
    \/ rate_limit_per_minute # 0 /\ rl.minute_count >= rate_limit_per_minute
    \/ rate_limit_per_hour # 0 /\ rl.hour_count >= rate_limit_per_hour

\* "Update counts"
CountExecution(rl, t) ==
    [rl EXCEPT !.minute_count = @ + 1, !.hour_count = @ + 1,
               !.day_count = @ + 1, !.last_execution = t]

\* check_rate_limit whose rolled-forward windows reach the row on denial
ExecRateSelect_resetting(q) ==
    /\ req[q].pc = "rl_select"
    /\ IF ~rate_limit.exists
       THEN /\ req' = [req EXCEPT ![q] = [@ EXCEPT !.pc = "done", !.resp = "500"]]
            /\ UNCHANGED rate_limit
       ELSE LET rl == ResetWindows(rate_limit, req[q].now)
            IN  IF LimitReached(rl)
                THEN /\ req' = [req EXCEPT ![q] = [@ EXCEPT !.pc = "done", !.resp = "429"]]
                     /\ rate_limit' = rl
                ELSE /\ req' = [req EXCEPT ![q] =
                                  [@ EXCEPT !.pc = "rl_commit",
                                            !.rl = CountExecution(rl, req[q].now)]]
                     /\ UNCHANGED rate_limit
    /\ UNCHANGED <<nonToolVars, now, permission, executions>>

\* the rate-limit SELECT returns.  Without a row a ToolRateLimit object is
\* built whose counters are still None (column defaults are applied by the
\* INSERT), so the comparison or the += raises TypeError: response 500.
ExecRateSelect(q) ==
    /\ req[q].pc = "rl_select"
    /\ IF ~rate_limit.exists
       THEN req' = [req EXCEPT ![q] = [@ EXCEPT !.pc = "done", !.resp = "500"]]
       ELSE LET rl == ResetWindows(rate_limit, req[q].now)
            IN  IF LimitReached(rl)
                THEN req' = [req EXCEPT ![q] = [@ EXCEPT !.pc = "done", !.resp = "429"]]
                ELSE req' = [req EXCEPT ![q] =
                               [@ EXCEPT !.pc = "rl_commit",
                                         !.rl = CountExecution(rl, req[q].now)]]
    /\ UNCHANGED <<nonToolVars, now, permission, rate_limit, executions>>

\* the rate-limit commit returns (the row now holds this session's values):
\* parameters are validated, the execution row is inserted, and unless a
\* confirmation is required the background task is scheduled
ExecRateCommit(q) ==
    /\ req[q].pc = "rl_commit"
    /\ rate_limit' = req[q].rl
    /\ IF ~req[q].params_ok
       THEN /\ req' = [req EXCEPT ![q] = [@ EXCEPT !.pc = "done", !.resp = "400"]]
            /\ UNCHANGED executions
       ELSE LET confirm == requires_confirmation \/ permission.require_confirmation
            IN  /\ executions' = [executions EXCEPT ![q] =
                      [NoExecution EXCEPT !.status = "pending",
                                          !.dry_run = req[q].dry_run,
                                          !.required_confirmation = confirm]]
                /\ IF confirm /\ ~req[q].dry_run
                   THEN req' = [req EXCEPT ![q] =
                                   [@ EXCEPT !.pc = "awaiting_confirmation",
                                             !.resp = "pending"]]
                   ELSE req' = [req EXCEPT ![q] =
                                   [@ EXCEPT !.pc = "bg_start", !.resp = "running"]]
    /\ UNCHANGED <<nonToolVars, now, permission>>

BgStart_sandboxing(q) ==
    /\ req[q].pc = "bg_start"
    /\ executions' = [executions EXCEPT ![q] = [@ EXCEPT !.status = "running"]]
    /\ req' = [req EXCEPT ![q] =
                 [@ EXCEPT !.pc = IF tool.privacy_tier > 0
                                  THEN "bg_sandbox" ELSE "bg_run"]]
    /\ UNCHANGED <<nonToolVars, now, permission, rate_limit>>

\* execute_tool_async starts: the row is loaded, status = RUNNING is
\* committed; a sandbox is requested for a tool of privacy tier > 0
BgStart(q) ==
    /\ req[q].pc = "bg_start"
    /\ executions' = [executions EXCEPT ![q] = [@ EXCEPT !.status = "running"]]
    /\ req' = [req EXCEPT ![q] =
                 [@ EXCEPT !.pc = IF tool.privacy_tier > 0 /\ ~executions[q].dry_run
                                  THEN "bg_sandbox" ELSE "bg_run"]]
    /\ UNCHANGED <<nonToolVars, now, permission, rate_limit>>

\* create_sandbox returns or raises (except branch: FAILED is committed)
BgSandbox(q, sandbox_ok) ==
    /\ req[q].pc = "bg_sandbox"
    /\ IF sandbox_ok
       THEN /\ executions' = [executions EXCEPT ![q] = [@ EXCEPT !.sandbox_id = "live"]]
            /\ req' = [req EXCEPT ![q] = [@ EXCEPT !.pc = "bg_run"]]
       ELSE /\ executions' = [executions EXCEPT ![q] =
                                [@ EXCEPT !.status = "failed", !.error_message = "error"]]
            /\ req' = [req EXCEPT ![q] = [@ EXCEPT !.pc = "done"]]
    /\ UNCHANGED <<nonToolVars, now, permission, rate_limit>>

\* tool_executor.execute returns or raises.  On success the use counter of
\* the permission object loaded by the request is incremented; that object
\* belongs to the request's session, which this task does not commit, so
\* whether the new value reaches the row depends on when that session ends.
BgFinish(q, ok, persisted) ==
    /\ req[q].pc = "bg_run"
    /\ IF ok
       THEN /\ executions' = [executions EXCEPT ![q] =
                                [@ EXCEPT !.status = "success",
                                          !.output_result = IF executions[q].dry_run
                                                            THEN "simulated" ELSE "real",
                                          !.duration_ms = "set",
                                          !.cpu_time_ms = "set",
                                          !.memory_peak_mb = "set",
                                          !.sandbox_id = IF @ = "live" THEN "destroyed" ELSE @]]
            /\ permission' = IF persisted
                             THEN [permission EXCEPT !.current_uses = req[q].perm_uses + 1]
                             ELSE permission
       ELSE /\ persisted = FALSE
            /\ executions' = [executions EXCEPT ![q] =
                                [@ EXCEPT !.status = "failed",
                                          !.error_message = "error",
                                          !.sandbox_id = IF @ = "live" THEN "destroyed" ELSE @]]
            /\ UNCHANGED permission
    /\ req' = [req EXCEPT ![q] = [@ EXCEPT !.pc = "done"]]
    /\ UNCHANGED <<nonToolVars, now, rate_limit>>

TickTools ==
    /\ now + TickStepTools <= MaxNowTools
    /\ now' = now + TickStepTools
    /\ UNCHANGED <<nonToolVars, toolVars>>

NextTools ==
    \/ \E q \in Reqs : ExecRequest(q, FALSE, TRUE)
    \/ \E q \in Reqs : ExecPermission(q)
    \/ \E q \in Reqs : ExecRateSelect(q)
    \/ \E q \in Reqs : ExecRateCommit(q)
    \/ \E q \in Reqs : BgStart(q)
    \/ \E q \in Reqs, sandbox_ok \in BOOLEAN : BgSandbox(q, sandbox_ok)
    \/ \E q \in Reqs, ok \in BOOLEAN, persisted \in BOOLEAN : BgFinish(q, ok, persisted)
    \/ TickTools

SpecTools == InitTools /\ [][NextTools]_vars

(***************************************************************************)
(* Claims checked under SpecTools                                          *)
(***************************************************************************)
\* the request got past the permission check of execute_tool
PassedPermission(q) == req[q].pc \notin {"idle", "perm"} /\ req[q].resp # "403"

Answered(q) == req[q].pc \notin {"idle", "perm"}

\* C1: with max_total_uses = U exactly U execute calls get through the
\* permission check, in every interleaving: never more than U, and U of them
\* once more than U calls have been checked.
C1_ExactlyUPass ==
    LET passed == Cardinality({q \in Reqs : PassedPermission(q)})
        checked == Cardinality({q \in Reqs : Answered(q)})
    IN  /\ passed <= max_total_uses
        /\ checked > max_total_uses => passed = max_total_uses

\* check_rate_limit returned True for the request
RateAllowed(q) ==
    req[q].pc \in {"rl_commit", "awaiting_confirmation", "bg_start", "bg_sandbox",
                  "bg_run"}
    \/ (req[q].pc = "done" /\ req[q].resp \in {"400", "running"})

\* C2: check-then-increment of the rate limit is atomic: the calls allowed
\* at one clock reading (hence within one minute window) never exceed the
\* per-minute ceiling.
C2_RateLimitAtomic ==
    \A t \in 0..MaxNowTools :
        Cardinality({q \in Reqs : RateAllowed(q) /\ req[q].now = t})
            <= rate_limit_per_minute

(***************************************************************************)
(* SpecCons: consolidate() called on a neuron that has processed turns,    *)
(* with every kind of model reply, while turns of the same neuron keep     *)
(* completing (chat() takes no lock, so its step 6 and 7 run between two   *)
(* stages).                                                                *)
(***************************************************************************)
InitCons ==
    /\ \E K \in ConsSeedAdds :
         /\ working_memory = SeedMemory(K).wm
         /\ episodic_memory = SeedMemory(K).em
    /\ semantic_memory = EmptyDict
    /\ procedural_memory = EmptyDict
    /\ now = 0
    /\ InitCalls
    /\ InitToolsIdle
    /\ InitNeuronIdle

\* consolidate() is called: the coroutine is created
ConsCall ==
    /\ Len(runs) < MaxRuns
    /\ \A r \in RunIds : runs[r].pc = "done"
    /\ runs' = Append(runs, NewRun)
    /\ UNCHANGED <<memVars, now, nonNeuronVars, chatVars,
                   interactions_since_consolidation, last_consolidation>>

\* a turn of the neuron completes: steps 6 and 7 of chat()
ConsTurn ==
    /\ turnsStarted < MaxConsTurns
    /\ LET r == add_interaction(working_memory, episodic_memory, "b", <<"x">>, "", now)
           count == interactions_since_consolidation + 1
           task == should_consolidate(count, r.em, now, last_consolidation)
       IN  /\ task => Len(runs) < MaxRuns
           /\ working_memory' = r.wm
           /\ episodic_memory' = r.em
           /\ interactions_since_consolidation' = count
           /\ runs' = IF task THEN Append(runs, NewRun) ELSE runs
    /\ turnsStarted' = turnsStarted + 1
    /\ state' = "idle"
    /\ UNCHANGED <<semantic_memory, procedural_memory, now, nonNeuronVars,
                   chatPc, full_response, yielded, last_consolidation>>

NextCons ==
    \/ ConsCall
    \/ ConsTurn
    \/ \E r \in RunIds : ConsBegin(r)
    \/ \E r \in RunIds :
         \E o \in LLMOutcomes(runs[r].stage, runs[r].snap) : ConsReply(r, o)

SpecCons == InitCons /\ [][NextCons]_vars

(***************************************************************************)
(* Claims checked under SpecCons                                           *)
(***************************************************************************)
\* the replies with which a stage fails: the model call raises, or its text
\* is not the JSON structure the stage expects
FailureKinds == {"raise", "bad_json", "wrong_type", "missing_field", "ill_typed"}

\* the stage at which run r is suspended after the step (0: the run is over)
StageAfter(k) ==
    LET j == NextAwait(k + 1, working_memory', episodic_memory', semantic_memory')
    IN  IF j = 6 THEN 0 ELSE j

\* C11: a model-call failure or a parse failure in stage k is skipped: the
\* run is not marked failed, and it goes on to attempt stages k+1..5 (it is
\* next suspended in the first later stage whose guard lets it run, or it
\* ends successfully when none does).
C11_StagesFailIndependently ==
    [][\A r \in RunIds :
         \A o \in LLMOutcomes(runs[r].stage, runs[r].snap) :
            (o.kind \in FailureKinds /\ ConsReply(r, o)) =>
                /\ runs'[r].result # "failed"
                /\ runs'[r].stage = StageAfter(runs[r].stage)]_vars

\* the replies that cannot be parsed into the structure a stage expects
UnparsedKinds == {"bad_json", "wrong_type", "missing_field", "ill_typed"}

\* the step leaves the layer that stage k rewrites as it was
LayerKept(k) ==
    CASE k = 2 -> episodic_memory' = episodic_memory
      [] k = 3 -> semantic_memory' = semantic_memory
      [] k = 4 -> procedural_memory' = procedural_memory
      [] k = 5 -> semantic_memory' = semantic_memory
      [] OTHER -> TRUE

\* C12: when the reply of stage 2, 3, 4 or 5 cannot be parsed into the
\* expected structure, the layer that stage rewrites (L2, L3, L4, the L3
\* facts) is after the stage exactly what it was before it.
C12_ReplaceOnlyAfterParse ==
    [][\A r \in RunIds :
         \A o \in LLMOutcomes(runs[r].stage, runs[r].snap) :
            (o.kind \in UnparsedKinds /\ ConsReply(r, o)) =>
                LayerKept(runs[r].stage)]_vars

\* the step is the return of consolidate() through its except branch
IsRunFailStep(r) == runs[r].pc = "llm" /\ runs'[r].result = "failed"

\* C13: when a stage raises, the run ends with a result record marked failed
\* and the four layers are left as the stages completed before it made
\* them: nothing is rolled back.  A run is never marked failed otherwise.
C13_FailedRunKeepsEffects ==
    [][\A r \in RunIds :
         /\ \A o \in LLMOutcomes(runs[r].stage, runs[r].snap) :
               (o.kind = "raise" /\ ConsReply(r, o)) => IsRunFailStep(r)
         /\ IsRunFailStep(r) =>
               /\ runs'[r].pc = "done"
               /\ memVars' = memVars]_vars

\* stage 1 stored its episode and cut L1, then stage 3 raised
C13_Witness ==
    /\ Len(runs) = 1
    /\ runs[1].result = "failed"
    /\ Len(working_memory) = Stage1Keep
    /\ Len(episodic_memory) = 3
    /\ "timestamp" \in DOMAIN episodic_memory[3]
    /\ episodic_memory[3].interaction_count = Stage1Recent

(***************************************************************************)
(* SpecInit: a Neuron is constructed, initialize() is called and may fail  *)
(* at each of its steps, and chat() is called on the object afterwards.    *)
(***************************************************************************)
\* the steps of initialize() that can raise: LLMBroker(...), the broker's
\* initialize(), and Axon(...) of a configuration with "axon" enabled
InitFailPoints == {"broker_ctor", "broker_init", "axon_ctor"}

\* Neuron.__init__
InitConstructed ==
    /\ InitMemory
    /\ now = 0
    /\ InitCalls
    /\ InitToolsIdle
    /\ state = "idle"
    /\ chatPc = [t \in TurnSlots |-> "idle"]
    /\ full_response = [t \in TurnSlots |-> <<>>]
    /\ yielded = [t \in TurnSlots |-> <<>>]
    /\ turnsStarted = 0
    /\ interactions_since_consolidation = 0
    /\ last_consolidation = 0
    /\ runs = <<>>
    /\ llm_broker = "none"
    /\ consolidator = FALSE
    /\ initPc = "new"

\* initialize() runs to its end
InitializeOk ==
    /\ initPc \in {"new", "failed"}
    /\ llm_broker' = "ready"
    /\ consolidator' = TRUE
    /\ initPc' = "ready"
    /\ UNCHANGED <<memVars, now, callVars, toolVars, grantVars, confVars, registryVars, builtinVars, managerVars,
                   chatVars,
                   consVars>>

\* initialize() raises at the given step: the components assigned before it
\* stay, state = ERROR, the exception is re-raised
InitializeFail(point) ==
    /\ initPc \in {"new", "failed"}
    /\ llm_broker' = CASE point = "broker_ctor" -> llm_broker
                       [] point = "broker_init" -> "raw"
                       [] point = "axon_ctor" -> "ready"
    /\ state' = "error"
    /\ initPc' = "failed"
    /\ UNCHANGED <<memVars, now, callVars, toolVars, grantVars, confVars, registryVars, builtinVars, managerVars,
                   consVars,
                   consolidator, chatPc, full_response, yielded, turnsStarted>>

NextInit ==
    \/ InitializeOk
    \/ \E p \in InitFailPoints : InitializeFail(p)
    \/ initPc # "new" /\ \E t \in TurnSlots : ChatStart(t)
    \/ \E t \in TurnSlots : ChatTools(t)
    \/ \E t \in TurnSlots, c \in Chunks : ChatChunk(t, c)
    \/ \E t \in TurnSlots : ChatFinish(t)
    \/ \E t \in TurnSlots : ChatError(t)

SpecInit == InitConstructed /\ [][NextInit]_vars

(***************************************************************************)
(* Claims checked under SpecInit                                           *)
(***************************************************************************)
\* C15: a failed initialize() leaves the neuron in Error, and as long as no
\* initialize() has succeeded since, no step takes the state out of Error,
\* opens a model stream or writes to Memory.
C15_FailedInitRefusesTurns ==
    [][/\ (\E p \in InitFailPoints : InitializeFail(p)) => state' = "error"
       /\ (initPc = "failed" /\ initPc' = "failed") =>
             /\ state' = "error"
             /\ \A t \in TurnSlots : chatPc'[t] # "stream"
             /\ memVars' = memVars]_vars

(***************************************************************************)
(* SpecValidity: the /execute requests of SpecTools against each kind of   *)
(* permission row (an Integer column that is NULL reads as 0: both are     *)
(* falsy in is_valid).                                                     *)
(***************************************************************************)
PermissionRows ==
    {GrantedPermission,
     [GrantedPermission EXCEPT !.max_total_uses = 0, !.max_daily_uses = max_daily_uses],
     [GrantedPermission EXCEPT !.max_total_uses = 0, !.expires_at = 0],
     [GrantedPermission EXCEPT !.max_total_uses = 0, !.revoked_at = 0],
     [GrantedPermission EXCEPT !.max_total_uses = 0, !.active = FALSE, !.revoked_at = 0]}

InitValidity ==
    /\ InitMemory
    /\ now = 0
    /\ InitCalls
    /\ InitNeuronIdle
    /\ InitGrantsIdle
    /\ InitBuiltinIdle
    /\ InitManagerIdle
    /\ InitRegistry
    /\ permission \in PermissionRows
    /\ rate_limit = ExistingRateLimit(0)
    /\ req = [q \in Reqs |-> IdleReq]
    /\ executions = [q \in Reqs |-> NoExecution]

SpecValidity == InitValidity /\ [][NextTools]_vars

(***************************************************************************)
(* Claims checked under SpecValidity                                       *)
(***************************************************************************)
\* uses of the permission on the current day: its executions that succeeded
\* (the clock of SpecValidity stays within one day)
UsesToday == Cardinality({q \in Reqs : executions[q].status = "success"})

\* the validity predicate: active, not revoked, not expired, under every cap
ValidNow ==
    /\ permission.active
    /\ permission.revoked_at = NoTime
    /\ ~(permission.expires_at # NoTime /\ now > permission.expires_at)
    /\ permission.max_total_uses # 0 =>
          permission.current_uses < permission.max_total_uses
    /\ permission.max_daily_uses # 0 => UsesToday < permission.max_daily_uses

\* C16: a request gets past the permission check only if the permission is
\* valid at that moment (active, not revoked, not expired, under the total
\* and the daily cap); a request answered with the permission error has no
\* execution row and starts no run.
C16_AcceptedOnlyIfValid ==
    /\ [][\A q \in Reqs :
            (req[q].pc = "perm" /\ req'[q].pc = "rl_select") => ValidNow]_vars
    /\ [](\A q \in Reqs : req[q].resp = "403" =>
            req[q].pc = "done" /\ executions[q] = NoExecution)

(***************************************************************************)
(* SpecGrant: concurrent grant and revoke requests of one user for one     *)
(* (neuron, tool), each in its own database session.  The table carries    *)
(* UniqueConstraint(user_id, neuron_id, tool_id), checked by the INSERT.   *)
(***************************************************************************)
InitGrant ==
    /\ InitMemory
    /\ now = 0
    /\ InitCalls
    /\ InitNeuronIdle
    /\ InitToolsIdle

\* POST /permissions/grant arrives: the tool is found, the query for an
\* active permission of the triple is issued
GrantRequest(g) ==
    /\ permReq[g].pc = "idle"
    /\ \A h \in PermReqs : h < g => permReq[h].pc # "idle"
    /\ permReq' = [permReq EXCEPT ![g] = [@ EXCEPT !.kind = "grant", !.pc = "select"]]
    /\ UNCHANGED <<nonGrantVars, now, permissions>>

\* the query returns: 400 when an active row exists, else the new row is
\* added to the session and the commit is issued
GrantSelect(g) ==
    /\ permReq[g].kind = "grant"
    /\ permReq[g].pc = "select"
    /\ IF \E i \in 1..Len(permissions) : permissions[i].active
       THEN permReq' = [permReq EXCEPT ![g] = [@ EXCEPT !.pc = "done", !.resp = "400"]]
       ELSE permReq' = [permReq EXCEPT ![g] = [@ EXCEPT !.pc = "insert"]]
    /\ UNCHANGED <<nonGrantVars, now, permissions>>

\* a grant whose INSERT is checked against no constraint
GrantCommit_unconstrained(g) ==
    /\ permReq[g].kind = "grant"
    /\ permReq[g].pc = "insert"
    /\ permissions' = Append(permissions, [active |-> TRUE, revoked_at |-> NoTime])
    /\ permReq' = [permReq EXCEPT ![g] = [@ EXCEPT !.pc = "done", !.resp = "200"]]
    /\ UNCHANGED <<nonGrantVars, now>>

\* the commit runs the INSERT: a row of the triple already in the table
\* (active or not) violates the unique constraint, the commit raises
GrantCommit(g) ==
    /\ permReq[g].kind = "grant"
    /\ permReq[g].pc = "insert"
    /\ IF Len(permissions) > 0
       THEN /\ permReq' = [permReq EXCEPT ![g] = [@ EXCEPT !.pc = "done", !.resp = "500"]]
            /\ UNCHANGED permissions
       ELSE /\ permissions' = Append(permissions,
                                     [active |-> TRUE, revoked_at |-> NoTime])
            /\ permReq' = [permReq EXCEPT ![g] = [@ EXCEPT !.pc = "done", !.resp = "200"]]
    /\ UNCHANGED <<nonGrantVars, now>>

\* DELETE /permissions/{id} arrives: db.get is issued
RevokeRequest(g, id) ==
    /\ permReq[g].pc = "idle"
    /\ \A h \in PermReqs : h < g => permReq[h].pc # "idle"
    /\ permReq' = [permReq EXCEPT ![g] = [@ EXCEPT !.kind = "revoke", !.pc = "get",
                                                    !.target = id]]
    /\ UNCHANGED <<nonGrantVars, now, permissions>>

\* db.get returns: 404 without a row, else the row is marked in the session
\* and the commit is issued
RevokeGet(g) ==
    /\ permReq[g].kind = "revoke"
    /\ permReq[g].pc = "get"
    /\ IF permReq[g].target \in 1..Len(permissions)
       THEN permReq' = [permReq EXCEPT ![g] = [@ EXCEPT !.pc = "commit"]]
       ELSE permReq' = [permReq EXCEPT ![g] = [@ EXCEPT !.pc = "done", !.resp = "404"]]
    /\ UNCHANGED <<nonGrantVars, now, permissions>>

\* the commit writes active = False and revoked_at
RevokeCommit(g) ==
    /\ permReq[g].kind = "revoke"
    /\ permReq[g].pc = "commit"
    /\ permissions' = [permissions EXCEPT ![permReq[g].target] =
                          [active |-> FALSE, revoked_at |-> now]]
    /\ permReq' = [permReq EXCEPT ![g] = [@ EXCEPT !.pc = "done", !.resp = "200"]]
    /\ UNCHANGED <<nonGrantVars, now>>

NextGrant ==
    \/ \E g \in PermReqs : GrantRequest(g)
    \/ \E g \in PermReqs : GrantSelect(g)
    \/ \E g \in PermReqs : GrantCommit(g)
    \/ \E g \in PermReqs, id \in 1..MaxPermReqs : RevokeRequest(g, id)
    \/ \E g \in PermReqs : RevokeGet(g)
    \/ \E g \in PermReqs : RevokeCommit(g)

SpecGrant == InitGrant /\ [][NextGrant]_vars

(***************************************************************************)
(* Claims checked under SpecGrant                                          *)
(***************************************************************************)
ActivePermissions == {i \in 1..Len(permissions) : permissions[i].active}

\* the step answers grant request g
IsGrantAnswer(g) ==
    permReq[g].kind = "grant" /\ permReq[g].pc # "done" /\ permReq'[g].pc = "done"

\* C17: in every reachable state at most one permission of the triple is
\* active, and a grant answered while the triple has an active permission
\* fails and leaves the table as it was.
C17_OneActivePermission ==
    /\ [](Cardinality(ActivePermissions) <= 1)
    /\ [][\A g \in PermReqs :
            (IsGrantAnswer(g) /\ ActivePermissions # {}) =>
                /\ permReq'[g].resp \in {"400", "500"}
                /\ permissions' = permissions]_vars

\* two grants overlapped: both saw no active row, one inserted its row and
\* the INSERT of the other was refused
C17_Witness ==
    /\ Len(permissions) = 1
    /\ permissions[1].active
    /\ \E g, h \in PermReqs :
          /\ permReq[g].kind = "grant" /\ permReq[g].resp = "200"
          /\ permReq[h].kind = "grant" /\ permReq[h].resp = "500"

(***************************************************************************)
(* SpecRate: the /execute requests of SpecTools under a permission without *)
(* use cap, with the clock brought to the end of the minute window that    *)
(* began at 0 and one second past it.                                      *)
(***************************************************************************)
\* the row after a check allowed 61 s before time 0 and one allowed at 0
UsedRateLimit ==
    [exists |-> TRUE, minute_window |-> 0, hour_window |-> -(MinuteWindow + 1),
     day_window |-> -(MinuteWindow + 1), minute_count |-> 1, hour_count |-> 2,
     day_count |-> 2, last_execution |-> 0]

\* the row one allowed check at time 0 leaves behind
CheckedRateLimit == CountExecution(ExistingRateLimit(0), 0)

InitRate ==
    /\ InitMemory
    /\ now = 0
    /\ InitCalls
    /\ InitNeuronIdle
    /\ InitGrantsIdle
    /\ InitBuiltinIdle
    /\ InitManagerIdle
    /\ InitRegistry
    /\ permission = [GrantedPermission EXCEPT !.max_total_uses = 0]
    /\ rate_limit \in {ExistingRateLimit(0), CheckedRateLimit, UsedRateLimit}
    /\ req = [q \in Reqs |-> IdleReq]
    /\ executions = [q \in Reqs |-> NoExecution]

RateReqs == 1..MaxRateReqs

TickRate ==
    /\ now' = IF now < MinuteWindow THEN MinuteWindow ELSE now + 1
    /\ now' <= MaxNowRate
    /\ UNCHANGED <<nonToolVars, toolVars>>

NextRate ==
    \/ \E q \in RateReqs : ExecRequest(q, FALSE, TRUE)
    \/ \E q \in RateReqs : ExecPermission(q)
    \/ \E q \in RateReqs : ExecRateSelect(q)
    \/ \E q \in RateReqs : ExecRateCommit(q)
    \/ \E q \in RateReqs : BgStart(q)
    \/ \E q \in RateReqs, sandbox_ok \in BOOLEAN : BgSandbox(q, sandbox_ok)
    \/ \E q \in RateReqs, ok \in BOOLEAN, persisted \in BOOLEAN : BgFinish(q, ok, persisted)
    \/ TickRate

SpecRate == InitRate /\ [][NextRate]_vars

(***************************************************************************)
(* Claims checked under SpecRate                                           *)
(***************************************************************************)
\* the step is the comparison of check_rate_limit for request q, on a row
\* that exists
IsRateCheck(q) ==
    req[q].pc = "rl_select" /\ req'[q].pc # "rl_select" /\ rate_limit.exists

RateDenied(q) == req'[q].pc = "done" /\ req'[q].resp = "429"

\* the per-hour ceiling does not stand in the way of a check at time t
HourOpen(t) ==
    \/ rate_limit_per_hour = 0
    \/ t - rate_limit.hour_window > HourWindow
    \/ rate_limit.hour_count < rate_limit_per_hour

InitConfirm ==
    /\ InitMemory
    /\ now = 0
    /\ InitCalls
    /\ InitNeuronIdle
    /\ InitGrantsIdle
    /\ InitBuiltinIdle
    /\ InitManagerIdle
    /\ InitRegistry
    /\ permission \in {[GrantedPermission EXCEPT !.max_total_uses = 0],
                       [GrantedPermission EXCEPT !.max_total_uses = 0,
                                                 !.require_confirmation = TRUE]}
    /\ rate_limit = ExistingRateLimit(0)
    /\ req = [q \in Reqs |-> IdleReq]
    /\ executions = [q \in Reqs |-> NoExecution]

\* POST /confirm/{execution_id} arrives for an execution that /execute has
\* answered with its id: db.get is issued
ConfRequest(c, q, confirm, user) ==
    /\ confReq[c].pc = "idle"
    /\ executions[q].status # "none"
    /\ \A d \in ConfReqs : d < c => confReq[d].pc # "idle"
    /\ confReq' = [confReq EXCEPT ![c] = [@ EXCEPT !.pc = "get", !.target = q,
                                                    !.confirm = confirm,
                                                    !.user = user]]
    /\ UNCHANGED <<nonConfVars, now, toolVars>>

\* db.get returns: the row as read is tested; on deny CANCELLED is set and
\* committed, on confirm the tool and the permission are loaded and
\* confirmed_at is committed
ConfGet(c) ==
    /\ confReq[c].pc = "get"
    /\ LET e == executions[confReq[c].target]
       IN  confReq' = [confReq EXCEPT ![c] =
              IF e.status = "none" THEN [@ EXCEPT !.pc = "done", !.resp = "404"]
              ELSE IF confReq[c].user # "requester"
                   THEN [@ EXCEPT !.pc = "done", !.resp = "403"]
              ELSE IF ~e.required_confirmation \/ e.status # "pending"
                   THEN [@ EXCEPT !.pc = "done", !.resp = "400"]
              ELSE IF ~confReq[c].confirm THEN [@ EXCEPT !.pc = "deny_commit"]
              ELSE [@ EXCEPT !.pc = "commit", !.perm_uses = permission.current_uses]]
    /\ UNCHANGED <<nonConfVars, now, toolVars>>

\* the commit of the denial writes status = CANCELLED
ConfDenyCommit(c) ==
    /\ confReq[c].pc = "deny_commit"
    /\ executions' = [executions EXCEPT ![confReq[c].target] =
                         [@ EXCEPT !.status = "cancelled"]]
    /\ confReq' = [confReq EXCEPT ![c] = [@ EXCEPT !.pc = "done", !.resp = "cancelled"]]
    /\ UNCHANGED <<nonConfVars, now, permission, rate_limit, req>>

\* the commit of the confirmation returns: the runner is scheduled and the
\* handler answers (it sets status = RUNNING on its object after the commit)
ConfCommit(c) ==
    /\ confReq[c].pc = "commit"
    /\ confReq' = [confReq EXCEPT ![c] = [@ EXCEPT !.pc = "task_start",
                                                    !.resp = "running"]]
    /\ UNCHANGED <<nonConfVars, now, toolVars>>

\* the session of the answered confirmation ends.  Its object carries the
\* uncommitted status = RUNNING; whether that reaches the row depends on
\* whether the session dependency commits on exit.
ConfTeardown(c, persisted) ==
    /\ confReq[c].resp = "running"
    /\ ~confReq[c].torn_down
    /\ confReq' = [confReq EXCEPT ![c] = [@ EXCEPT !.torn_down = TRUE]]
    /\ executions' = IF persisted
                     THEN [executions EXCEPT ![confReq[c].target] =
                              [@ EXCEPT !.status = "running"]]
                     ELSE executions
    /\ UNCHANGED <<nonConfVars, now, permission, rate_limit, req>>

\* execute_tool_async scheduled by the confirmation starts
ConfTaskStart(c) ==
    /\ confReq[c].pc = "task_start"
    /\ executions' = [executions EXCEPT ![confReq[c].target] =
                         [@ EXCEPT !.status = "running"]]
    /\ confReq' = [confReq EXCEPT ![c] =
          [@ EXCEPT !.pc = IF tool.privacy_tier > 0 /\ ~executions[confReq[c].target].dry_run
                           THEN "task_sandbox" ELSE "task_run"]]
    /\ UNCHANGED <<nonConfVars, now, permission, rate_limit, req>>

ConfTaskSandbox(c, sandbox_ok) ==
    /\ confReq[c].pc = "task_sandbox"
    /\ IF sandbox_ok
       THEN /\ executions' = [executions EXCEPT ![confReq[c].target] =
                                [@ EXCEPT !.sandbox_id = "live"]]
            /\ confReq' = [confReq EXCEPT ![c] = [@ EXCEPT !.pc = "task_run",
                                                            !.sandbox = "live"]]
       ELSE /\ executions' = [executions EXCEPT ![confReq[c].target] =
                                [@ EXCEPT !.status = "failed", !.error_message = "error"]]
            /\ confReq' = [confReq EXCEPT ![c] = [@ EXCEPT !.pc = "done"]]
    /\ UNCHANGED <<nonConfVars, now, permission, rate_limit, req>>

ConfTaskFinish(c, ok, persisted) ==
    /\ confReq[c].pc = "task_run"
    /\ IF ok
       THEN /\ executions' = [executions EXCEPT ![confReq[c].target] =
                                [@ EXCEPT !.status = "success",
                                          !.output_result =
                                             IF executions[confReq[c].target].dry_run
                                             THEN "simulated" ELSE "real",
                                          !.duration_ms = "set",
                                          !.cpu_time_ms = "set",
                                          !.memory_peak_mb = "set",
                                          !.sandbox_id = IF @ = "live" THEN "destroyed" ELSE @]]
            /\ permission' = IF persisted
                             THEN [permission EXCEPT
                                      !.current_uses = confReq[c].perm_uses + 1]
                             ELSE permission
       ELSE /\ persisted = FALSE
            /\ executions' = [executions EXCEPT ![confReq[c].target] =
                                [@ EXCEPT !.status = "failed",
                                          !.error_message = "error",
                                          !.sandbox_id = IF @ = "live" THEN "destroyed" ELSE @]]
            /\ UNCHANGED permission
    /\ confReq' = [confReq EXCEPT ![c] =
                       [@ EXCEPT !.pc = "done",
                                 !.sandbox = IF @ = "live" THEN "destroyed" ELSE @]]
    /\ UNCHANGED <<nonConfVars, now, rate_limit, req>>

NextConfirm ==
    \/ \E q \in Reqs : ExecRequest(q, FALSE, TRUE)
    \/ \E q \in Reqs : ExecPermission(q)
    \/ \E q \in Reqs : ExecRateSelect(q)
    \/ \E q \in Reqs : ExecRateCommit(q)
    \/ \E q \in Reqs : BgStart(q)
    \/ \E q \in Reqs, sandbox_ok \in BOOLEAN : BgSandbox(q, sandbox_ok)
    \/ \E q \in Reqs, ok \in BOOLEAN, persisted \in BOOLEAN : BgFinish(q, ok, persisted)
    \/ \E c \in ConfReqs, q \in Reqs, confirm \in BOOLEAN, user \in Users :
          ConfRequest(c, q, confirm, user)
    \/ \E c \in ConfReqs : ConfGet(c)
    \/ \E c \in ConfReqs : ConfDenyCommit(c)
    \/ \E c \in ConfReqs : ConfCommit(c)
    \/ \E c \in ConfReqs, persisted \in BOOLEAN : ConfTeardown(c, persisted)
    \/ \E c \in ConfReqs : ConfTaskStart(c)
    \/ \E c \in ConfReqs, sandbox_ok \in BOOLEAN : ConfTaskSandbox(c, sandbox_ok)
    \/ \E c \in ConfReqs, ok \in BOOLEAN, persisted \in BOOLEAN :
          ConfTaskFinish(c, ok, persisted)

SpecConfirm == InitConfirm /\ [][NextConfirm]_vars

(***************************************************************************)
(* Claims checked under SpecConfirm                                        *)
(***************************************************************************)
StatusChanges ==
    {<<"none", "pending">>, <<"pending", "running">>, <<"running", "success">>,
     <<"running", "failed">>, <<"pending", "cancelled">>}

\* C20: every change of an execution's status is its creation as Pending or
\* one of Pending->Running, Running->Success, Running->Failed and
\* Pending->Cancelled; a status of Success, Failed or Cancelled, having no
\* change that leaves it, stays.
C20_StatusMachine ==
    [][\A q \in Reqs :
         executions'[q].status # executions[q].status =>
            <<executions[q].status, executions'[q].status>> \in StatusChanges]_vars

\* a non-dry-run execution whose tool or permission requires confirmation
NeedsConfirmation(e) == e.status # "none" /\ e.required_confirmation /\ ~e.dry_run

\* tool_executor.execute is in flight for execution q
ToolInFlight(rq, cf, q) ==
    \/ rq[q].pc = "bg_run"
    \/ \E c \in ConfReqs : cf[c].target = q /\ cf[c].pc = "task_run"

\* a confirmation of execution q by the requester was accepted
ConfirmedByRequester(cf, q) ==
    \E c \in ConfReqs : /\ cf[c].target = q /\ cf[c].user = "requester"
                         /\ cf[c].confirm /\ cf[c].resp = "running"

\* a denial of execution q by the requester was answered
DeniedByRequester(cf, q) ==
    \E c \in ConfReqs : /\ cf[c].target = q /\ cf[c].user = "requester"
                         /\ ~cf[c].confirm /\ cf[c].resp = "cancelled"

\* C21: a non-dry-run execution that requires confirmation is not run
\* until its requester confirms it; once the requester's denial is answered
\* the execution is Cancelled and its tool is never in flight; a confirm or
\* deny of another principal changes nothing; without a confirm or deny of
\* the requester the execution stays Pending.
C21_ConfirmationGate ==
    [][/\ \A q \in Reqs :
            /\ (NeedsConfirmation(executions'[q]) /\ ToolInFlight(req', confReq', q))
                  => ConfirmedByRequester(confReq', q)
            /\ DeniedByRequester(confReq', q)
                  => /\ executions'[q].status = "cancelled"
                     /\ ~ToolInFlight(req', confReq', q)
            /\ (/\ NeedsConfirmation(executions[q])
                /\ executions[q].status = "pending"
                /\ executions'[q].status # "pending")
                  => \E c \in ConfReqs : /\ confReq[c].target = q
                                          /\ confReq[c].user = "requester"
                                          /\ confReq'[c] # confReq[c]
       /\ \A c \in ConfReqs :
            (confReq[c].user = "other" /\ confReq'[c] # confReq[c])
               => /\ confReq'[c].pc = "done" /\ confReq'[c].resp = "403"
                  /\ executions' = executions]_vars

Terminal == {"success", "failed", "cancelled"}

\* a sandbox created for execution q is allocated: the one of its
\* background runner or the one of a runner scheduled by a confirmation
SandboxAllocated(q) ==
    \/ req[q].pc = "bg_run" /\ executions[q].sandbox_id = "live"
    \/ \E c \in ConfReqs : confReq[c].target = q /\ confReq[c].sandbox = "live"

\* C22: a runner that is over has destroyed the sandbox it created,
\* whichever way it ended, and no sandbox created for an execution is
\* allocated while the execution's status is Success, Failed or Cancelled.
C22_SandboxScoped ==
    /\ \A q \in Reqs : req[q].pc = "done" => executions[q].sandbox_id # "live"
    /\ \A c \in ConfReqs : confReq[c].pc = "done" => confReq[c].sandbox # "live"
    /\ \A q \in Reqs : executions[q].status \in Terminal => ~SandboxAllocated(q)

(***************************************************************************)
(* SpecExec: /execute requests (dry-run or not, with valid or invalid      *)
(* parameters) and tool calls emitted by the model, against a tool of any  *)
(* privacy tier, with ToolExecutor.execute followed through its provider   *)
(* lookup, its dry-run short cut, its worker and its timeout.              *)
(***************************************************************************)
ExecReqs == 1..MaxExecReqs
EstimatedDurations == {0, 1000}       \* Tool.estimated_duration_ms (0: not set)
OpDurations == {500, 2000, 40000}     \* how long provider.execute takes, in ms
NoTimeout == -1                       \* timeout = None

\* the tools rows explored: every tier, with either estimate; a tool whose
\* provider cannot be found at every tier
Tools ==
    {t \in [privacy_tier : 0..2, has_provider : BOOLEAN,
            estimated_duration_ms : EstimatedDurations,
            max_concurrent_executions : {max_concurrent_executions}] :
        ~t.has_provider => t.estimated_duration_ms = 0}

\* the timeout of ToolExecutor.execute, in ms
TimeoutMs(timeout, t) ==
    IF timeout # NoTimeout THEN timeout * 1000
    ELSE IF t.estimated_duration_ms # 0 THEN t.estimated_duration_ms ELSE 30000

InitExec ==
    /\ InitMemory
    /\ now = 0
    /\ InitCalls
    /\ InitNeuronIdle
    /\ InitGrantsIdle
    /\ InitBuiltinIdle
    /\ InitManagerIdle
    /\ tool \in Tools
    /\ permission = [GrantedPermission EXCEPT !.max_total_uses = 0]
    /\ rate_limit = ExistingRateLimit(0)
    /\ req = [q \in Reqs |-> IdleReq]
    /\ executions = [q \in Reqs |-> NoExecution]

\* the finally block of execute_tool_async on the session object
DestroySandbox(e) == [e EXCEPT !.sandbox_id = IF @ = "live" THEN "destroyed" ELSE @]

\* the assignments after tool_executor.execute returned
RecordSuccess(e, output) ==
    [e EXCEPT !.status = "success", !.output_result = output,
              !.duration_ms = "set", !.cpu_time_ms = "set", !.memory_peak_mb = "set"]

\* the except branch of execute_tool_async
RecordFailure(e, message) == [e EXCEPT !.status = "failed", !.error_message = message]

\* tool_executor.execute is called by execute_tool_async: the provider is
\* looked up; a dry run returns provider.dry_run at once; otherwise
\* provider.execute is handed to a worker and awaited under the timeout
RunExecute(q, dur, persisted) ==
    /\ req[q].pc = "bg_run"
    /\ IF ~tool.has_provider
       THEN /\ dur = 500 /\ persisted = FALSE
            /\ executions' = [executions EXCEPT ![q] =
                                 DestroySandbox(RecordFailure(@, "error"))]
            /\ req' = [req EXCEPT ![q] = [@ EXCEPT !.pc = "done"]]
            /\ UNCHANGED permission
       ELSE IF executions[q].dry_run
       THEN /\ dur = 500
            /\ executions' = [executions EXCEPT ![q] =
                                 DestroySandbox(RecordSuccess(@, "simulated"))]
            /\ permission' = IF persisted
                             THEN [permission EXCEPT !.current_uses = req[q].perm_uses + 1]
                             ELSE permission
            /\ req' = [req EXCEPT ![q] = [@ EXCEPT !.pc = "done"]]
       ELSE /\ persisted = FALSE
            /\ req' = [req EXCEPT ![q] = [@ EXCEPT !.pc = "run_wait", !.work = "running",
                                                    !.dur = dur]]
            /\ UNCHANGED <<permission, executions>>
    /\ UNCHANGED <<nonToolVars, now, rate_limit>>

\* provider.execute ends within the timeout, returning or raising
RunReturn(q, ok, persisted) ==
    /\ req[q].pc = "run_wait"
    /\ req[q].dur <= TimeoutMs(NoTimeout, tool)
    /\ IF ok
       THEN /\ executions' = [executions EXCEPT ![q] =
                                 DestroySandbox(RecordSuccess(@, "real"))]
            /\ permission' = IF persisted
                             THEN [permission EXCEPT !.current_uses = req[q].perm_uses + 1]
                             ELSE permission
       ELSE /\ persisted = FALSE
            /\ executions' = [executions EXCEPT ![q] =
                                 DestroySandbox(RecordFailure(@, "error"))]
            /\ UNCHANGED permission
    /\ req' = [req EXCEPT ![q] = [@ EXCEPT !.pc = "done", !.work = "finished"]]
    /\ UNCHANGED <<nonToolVars, now, rate_limit>>

\* the timeout elapses first: asyncio.wait_for raises.  The subprocess of a
\* sandboxed run is terminated and waited for; the worker thread of a local
\* run keeps running (Future.cancel does not stop a running call).
RunTimeout(q) ==
    /\ req[q].pc = "run_wait"
    /\ req[q].dur > TimeoutMs(NoTimeout, tool)
    /\ executions' = [executions EXCEPT ![q] =
                         DestroySandbox(RecordFailure(@, "timeout"))]
    /\ req' = [req EXCEPT ![q] =
                 [@ EXCEPT !.pc = "done",
                           !.work = IF tool.privacy_tier = 1 THEN "terminated" ELSE @]]
    /\ UNCHANGED <<nonToolVars, now, permission, rate_limit>>

\* a worker thread left behind by a timeout ends
WorkerEnds(q) ==
    /\ req[q].pc = "done"
    /\ req[q].work = "running"
    /\ req' = [req EXCEPT ![q] = [@ EXCEPT !.work = "finished"]]
    /\ UNCHANGED <<nonToolVars, now, permission, rate_limit, executions>>

\* execute_llm_tool_call: the tool is found by name, the permission query
\* is issued
LlmRequest(q, params_ok) ==
    /\ req[q].pc = "idle"
    /\ \A p \in Reqs : p < q => req[p].pc # "idle"
    /\ req' = [req EXCEPT ![q] = [@ EXCEPT !.pc = "llm_perm", !.via = "llm",
                                            !.params_ok = params_ok]]
    /\ UNCHANGED <<nonToolVars, now, permission, rate_limit, executions>>

\* the permission query returns; the memory context is fetched
LlmPermission(q) ==
    /\ req[q].pc = "llm_perm"
    /\ IF ~permission.active \/ ~is_valid(permission, now)
       THEN req' = [req EXCEPT ![q] = [@ EXCEPT !.pc = "done", !.resp = "error"]]
       ELSE req' = [req EXCEPT ![q] = [@ EXCEPT !.pc = "llm_run"]]
    /\ UNCHANGED <<nonToolVars, now, permission, rate_limit, executions>>

\* self.executor.execute(tool, arguments, dry_run=False), without a sandbox
\* id: a sandboxed run fails to build its command, a local run starts
LlmExecute(q, dur) ==
    /\ req[q].pc = "llm_run"
    /\ IF ~tool.has_provider \/ tool.privacy_tier = 1
       THEN /\ dur = 500
            /\ req' = [req EXCEPT ![q] = [@ EXCEPT !.pc = "done", !.resp = "error"]]
       ELSE req' = [req EXCEPT ![q] = [@ EXCEPT !.pc = "llm_wait", !.work = "running",
                                               !.dur = dur]]
    /\ UNCHANGED <<nonToolVars, now, permission, rate_limit, executions>>

LlmReturn(q, ok) ==
    /\ req[q].pc = "llm_wait"
    /\ req[q].dur <= TimeoutMs(NoTimeout, tool)
    /\ req' = [req EXCEPT ![q] = [@ EXCEPT !.pc = "done", !.work = "finished",
                                            !.resp = IF ok THEN "result" ELSE "error"]]
    /\ UNCHANGED <<nonToolVars, now, permission, rate_limit, executions>>

LlmTimeout(q) ==
    /\ req[q].pc = "llm_wait"
    /\ req[q].dur > TimeoutMs(NoTimeout, tool)
    /\ req' = [req EXCEPT ![q] = [@ EXCEPT !.pc = "done", !.resp = "error"]]
    /\ UNCHANGED <<nonToolVars, now, permission, rate_limit, executions>>

NextExec ==
    \/ \E q \in ExecReqs, dry_run \in BOOLEAN, params_ok \in BOOLEAN :
          ExecRequest(q, dry_run, params_ok)
    \/ \E q \in ExecReqs : ExecPermission(q)
    \/ \E q \in ExecReqs : ExecRateSelect(q)
    \/ \E q \in ExecReqs : ExecRateCommit(q)
    \/ \E q \in ExecReqs : BgStart(q)
    \/ \E q \in ExecReqs, sandbox_ok \in BOOLEAN : BgSandbox(q, sandbox_ok)
    \/ \E q \in ExecReqs, dur \in OpDurations, persisted \in BOOLEAN :
          RunExecute(q, dur, persisted)
    \/ \E q \in ExecReqs, ok \in BOOLEAN, persisted \in BOOLEAN :
          RunReturn(q, ok, persisted)
    \/ \E q \in ExecReqs : RunTimeout(q)
    \/ \E q \in ExecReqs : WorkerEnds(q)
    \/ \E q \in ExecReqs, params_ok \in BOOLEAN : LlmRequest(q, params_ok)
    \/ \E q \in ExecReqs : LlmPermission(q)
    \/ \E q \in ExecReqs, dur \in OpDurations : LlmExecute(q, dur)
    \/ \E q \in ExecReqs, ok \in BOOLEAN : LlmReturn(q, ok)
    \/ \E q \in ExecReqs : LlmTimeout(q)

SpecExec == InitExec /\ [][NextExec]_vars

C24_DryRunWritesOwnRecordOnly ==
    [][\A q \in Reqs :
         (req'[q].dry_run /\ req'[q].via = "api" /\ req'[q] # req[q])
            => /\ rate_limit' = rate_limit
               /\ permission' = permission
               /\ \A p \in Reqs \ {q} : executions'[p] = executions[p]]_vars

\* the run of request q took longer than the timeout that applies when none
\* is passed: the tool's estimated_duration_ms, else 30 s
Overran(q) ==
    /\ req[q].work # "none"
    /\ req[q].dur > (IF tool.estimated_duration_ms # 0
                     THEN tool.estimated_duration_ms ELSE 30000)

\* C25: a run that exceeds its timeout ends Failed with the timeout error,
\* and once the execution is marked Failed for the timeout nothing of it is
\* still running: the worker thread or subprocess of provider.execute is
\* over.
C25_TimeoutCancelsWork ==
    \A q \in Reqs :
       (req[q].via = "api" /\ req[q].pc = "done" /\ Overran(q))
          => /\ executions[q].status = "failed"
             /\ executions[q].error_message = "timeout"
             /\ req[q].work # "running"

\* C26: a request or tool call whose parameters are invalid never has an
\* execution record, never reaches sandbox creation and never has
\* provider.execute handed to a worker, on the API path and on the path of
\* tool calls emitted by the model alike; it is never answered as accepted.
C26_ValidationBeforeAllocation ==
    \A q \in Reqs :
       (req[q].pc # "idle" /\ ~req[q].params_ok)
          => /\ executions[q].status = "none"
             /\ req[q].pc \notin {"bg_start", "bg_sandbox", "bg_run", "run_wait",
                                  "llm_wait"}
             /\ req[q].work = "none"
             /\ req[q].resp \notin {"running", "pending", "result"}

\* C27: an execution that is Success or Failed (by a tool error or by the
\* timeout) has its wall-time duration, its CPU time and its peak memory
\* recorded.
C27_AccountingRecorded ==
    \A q \in Reqs :
       executions[q].status \in {"success", "failed"}
          => /\ executions[q].duration_ms = "set"
             /\ executions[q].cpu_time_ms = "set"
             /\ executions[q].memory_peak_mb = "set"

\* the executions of the tool that are Running
RunningExecutions == {q \in Reqs : executions[q].status = "running"}

\* C28: the executions of the tool that are Running at the same time never
\* exceed its max_concurrent_executions.
C28_ConcurrencyCeiling ==
    Cardinality(RunningExecutions) <= tool.max_concurrent_executions

(***************************************************************************)
(* SpecFs: calls of the three filesystem tools (FileOpsTool,               *)
(* FileSystemTool, FileSystemProvider) with any operation and path.  The   *)
(* file tree: /ws is the workspace root and the working directory,         *)
(* /ws/lnk is a symbolic link to /etc.                                     *)
(***************************************************************************)
nonBuiltinVars ==
    <<memVars, now, callVars, chatVars, consVars, compVars, toolVars, grantVars,
      confVars, registryVars, managerVars>>

InitBuiltin ==
    /\ InitMemory
    /\ now = 0
    /\ InitCalls
    /\ InitNeuronIdle
    /\ InitToolsIdle

Segs == {"..", "a", "lnk", "etc", "ws", "v..1"}
PathStrings == UNION {[1..n -> Segs] : n \in 0..MaxPathLen}
Workspace == <<"ws">>
Symlink == <<"ws", "lnk">>
SymlinkTarget == <<"etc">>

\* ".." in str(path), for one segment
HasDotDot(seg) == seg \in {"..", "v..1"}

\* Path.resolve(): ".." steps to the parent, a symbolic link is followed
RECURSIVE ResolveFrom(_, _)
ResolveFrom(base, segs) ==
    IF segs = <<>> THEN base
    ELSE LET s == Head(segs)
             next == IF s = ".."
                     THEN (IF base = <<>> THEN <<>> ELSE SubSeq(base, 1, Len(base) - 1))
                     ELSE (IF Append(base, s) = Symlink THEN SymlinkTarget
                           ELSE Append(base, s))
         IN  ResolveFrom(next, Tail(segs))

\* an absolute path starts at the root, a relative one at the workspace
Resolve(abs, segs) == ResolveFrom(IF abs THEN <<>> ELSE Workspace, segs)

\* target.relative_to(self.workspace) does not raise
Inside(p) ==
    Len(p) >= Len(Workspace) /\ SubSeq(p, 1, Len(Workspace)) = Workspace

FsTools == {"FileOpsTool", "FileSystemTool", "FileSystemProvider"}
FsOps(t) ==
    IF t = "FileOpsTool" THEN {"read", "write", "append", "list", "exists", "delete"}
    ELSE IF t = "FileSystemTool" THEN {"read", "write", "list", "delete", "move"}
    ELSE {"read_file", "write_file", "list_directory", "create_directory",
          "delete_file"}

Served(p) == [result |-> "served", accessed |-> p]
Rejected == [result |-> "rejected", accessed |-> NoPath]

\* FileOpsTool.execute: _get_safe_path resolves workspace / path and tests
\* that the target lies in the workspace
FileOpsExecute(op, abs, segs) ==
    LET target == Resolve(abs, segs)
    IN  IF Inside(target) THEN Served(target) ELSE Rejected

\* FileSystemTool.execute: _validate_path resolves the path and then looks
\* for ".." in it; no root is configured
FileSystemToolExecute(op, abs, segs) ==
    LET path == Resolve(abs, segs)
    IN  IF \E i \in 1..Len(path) : HasDotDot(path[i]) THEN Rejected ELSE Served(path)

\* FileSystemProvider.execute: read_file and write_file look for ".." in
\* the path as given, the other operations test nothing
FileSystemProviderExecute(op, abs, segs) ==
    IF /\ op \in {"read_file", "write_file"}
       /\ \E i \in 1..Len(segs) : HasDotDot(segs[i])
    THEN Rejected
    ELSE Served(Resolve(abs, segs))

\* one call of a filesystem tool; the tools keep no state between calls, so
\* one call per behaviour covers them
FsCall(t, op, abs, segs) ==
    /\ fs.tool = "none"
    /\ LET out == IF t = "FileOpsTool" THEN FileOpsExecute(op, abs, segs)
                  ELSE IF t = "FileSystemTool" THEN FileSystemToolExecute(op, abs, segs)
                  ELSE FileSystemProviderExecute(op, abs, segs)
       IN  fs' = [tool |-> t, op |-> op, abs |-> abs, segs |-> segs,
                  result |-> out.result, accessed |-> out.accessed]
    /\ UNCHANGED <<nonBuiltinVars, sh, ssh>>

NextFs ==
    \E t \in FsTools, abs \in BOOLEAN, segs \in PathStrings :
       \E op \in FsOps(t) : FsCall(t, op, abs, segs)

SpecFs == InitBuiltin /\ [][NextFs]_vars

\* C29: whatever the filesystem tool and the operation, a call whose path
\* resolves outside the workspace root is rejected and touches no file, and
\* a call whose path resolves inside it is served on the resolved path.
C29_PathsStayInWorkspace ==
    fs.result # "none"
       => IF Inside(Resolve(fs.abs, fs.segs))
          THEN fs.result = "served" /\ fs.accessed = Resolve(fs.abs, fs.segs)
          ELSE fs.result = "rejected" /\ fs.accessed = NoPath

(***************************************************************************)
(* SpecShell: calls of the two shell tools (ShellTool and the run_command  *)
(* operation of SystemProvider) with any command.  A command is the        *)
(* sequence of its blank-separated tokens.                                 *)
(***************************************************************************)
Tokens == {"git", "status", "ls", ";", "rm", "-rf", "/", "sudo", "SUDO"}
Commands == UNION {[1..n -> Tokens] : n \in 0..MaxCmdLen}

\* str.lower(), token by token
Lower(cmd) == [i \in 1..Len(cmd) |-> IF cmd[i] = "SUDO" THEN "sudo" ELSE cmd[i]]

\* ShellTool.DANGEROUS_PATTERNS, those that the tokens can spell
DANGEROUS_PATTERNS == {<<"rm", "-rf">>, <<"sudo">>}
\* ShellTool.DEFAULT_SAFE_COMMANDS and the safe_commands of _run_command,
\* those among the tokens
DEFAULT_SAFE_COMMANDS == {"git", "ls"}
safe_commands == {"ls"}

\* pattern in command
Contains(cmd, pattern) ==
    \E i \in 1..Len(cmd) :
       /\ i + Len(pattern) - 1 <= Len(cmd)
       /\ SubSeq(cmd, i, i + Len(pattern) - 1) = pattern

\* ShellTool.execute: _is_safe_command, then create_subprocess_shell
ShellToolExecute(cmd) ==
    IF \E pattern \in DANGEROUS_PATTERNS : Contains(Lower(cmd), pattern) THEN "rejected"
    ELSE IF cmd = <<>> THEN "rejected"
    ELSE IF cmd[1] \notin DEFAULT_SAFE_COMMANDS THEN "rejected"
    ELSE "started"

\* SystemProvider._run_command: the first token is looked up, then
\* subprocess.run(command, shell=True)
RunCommand(cmd) ==
    IF cmd = <<>> THEN "rejected"
    ELSE IF cmd[1] \notin safe_commands THEN "rejected"
    ELSE "started"

ShTools == {"ShellTool", "SystemProvider"}
AllowList(t) == IF t = "ShellTool" THEN DEFAULT_SAFE_COMMANDS ELSE safe_commands

\* one call of a shell tool; the tools keep no state between calls
ShCall(t, cmd) ==
    /\ sh.tool = "none"
    /\ sh' = [tool |-> t, cmd |-> cmd,
              result |-> IF t = "ShellTool" THEN ShellToolExecute(cmd)
                         ELSE RunCommand(cmd)]
    /\ UNCHANGED <<nonBuiltinVars, fs, ssh>>

NextShell == \E t \in ShTools, cmd \in Commands : ShCall(t, cmd)

SpecShell == InitBuiltin /\ [][NextShell]_vars

\* C30: a shell tool starts a process for a command only if the command's
\* leading token is in the tool's allow-list and the command contains no
\* deny-list pattern; every other command is rejected, no process started.
C30_ShellAllowDeny ==
    sh.result # "none"
       => IF /\ sh.cmd # <<>>
             /\ sh.cmd[1] \in AllowList(sh.tool)
             /\ ~\E pattern \in DANGEROUS_PATTERNS : Contains(sh.cmd, pattern)
          THEN sh.result \in {"started", "rejected"}
          ELSE sh.result = "rejected"

(***************************************************************************)
(* SpecSsh: calls of the remote-command tool SSHTool, directly, through    *)
(* execute_tool_call for a tool call the model emits, and through the      *)
(* LangChain tool handed to the model by get_tools_for_llm.  A command is  *)
(* the sequence of its blank-separated tokens.                             *)
(***************************************************************************)
SshTokens == {"df", "-h", "rm", "REBOOT"}
SshCommands == UNION {[1..n -> SshTokens] : n \in 0..MaxCmdLen}

\* command.lower(), token by token
SshLower(cmd) == [i \in 1..Len(cmd) |-> IF cmd[i] = "REBOOT" THEN "reboot" ELSE cmd[i]]

\* SSHTool._is_dangerous_command: a pattern of _dangerous_commands occurs in
\* the lowered command; of the patterns the tokens can spell 'rm ' and
\* 'reboot' (the first ends with a blank, so another token follows)
is_dangerous_command(cmd) ==
    \E i \in 1..Len(cmd) :
       \/ SshLower(cmd)[i] = "reboot"
       \/ SshLower(cmd)[i] = "rm" /\ i < Len(cmd)

\* SSHTool.validate_parameters, for a call that names a host
validate_parameters(cmd) == cmd # <<>>

\* SSHTool.execute: the flag is computed, then connect and exec_command;
\* an exception of connect is answered without the command being run.
\* Nothing in execute reads schema.requires_confirmation.
SshExecute(path, cmd, connect_ok) ==
    IF connect_ok
    THEN [path |-> path, cmd |-> cmd, result |-> "ran",
          dangerous |-> is_dangerous_command(cmd), confirmed |-> FALSE]
    ELSE [path |-> path, cmd |-> cmd, result |-> "error", dangerous |-> "none",
          confirmed |-> FALSE]

SshPaths == {"execute", "execute_tool_call", "to_langchain_tool"}

\* one call of the tool; it keeps no state between calls.  execute_tool_call
\* validates the parameters before tool.execute, the two other paths call
\* execute at once.
SshCall(path, cmd, connect_ok) ==
    /\ ssh.path = "none"
    /\ ssh' = IF path = "execute_tool_call" /\ ~validate_parameters(cmd)
              THEN [path |-> path, cmd |-> cmd, result |-> "invalid",
                    dangerous |-> "none", confirmed |-> FALSE]
              ELSE SshExecute(path, cmd, connect_ok)
    /\ UNCHANGED <<nonBuiltinVars, fs, sh>>

NextSsh ==
    \E path \in SshPaths, cmd \in SshCommands, connect_ok \in BOOLEAN :
       SshCall(path, cmd, connect_ok)

SpecSsh == InitBuiltin /\ [][NextSsh]_vars

\* C31: on every path that invokes the remote-command tool, a command that
\* was run carries in its result the flag telling whether it matches the
\* dangerous-pattern list (a match does not stop it), and was run only after
\* an explicit confirmation.
C31_SshFlaggedAndConfirmed ==
    ssh.result = "ran"
       => /\ ssh.dangerous = is_dangerous_command(ssh.cmd)
          /\ ssh.confirmed

(***************************************************************************)
(* Further claims checked under SpecCons                                   *)
(***************************************************************************)
\* the step is the return of consolidate() with "success": True
IsRunSuccessStep(r) == runs[r].pc # "done" /\ runs'[r].result = "success"

\* C32: when a consolidate() run returns reporting success, the episodic
\* layer holds at most 20 entries.
C32_EpisodicAtMostTwenty ==
    [][\A r \in RunIds :
         IsRunSuccessStep(r) => Len(episodic_memory') <= Stage2Keep]_vars

(***************************************************************************)
(* Further claims checked under SpecConfirm                                *)
(***************************************************************************)
\* the runners (execute_tool_async tasks) scheduled for execution q by
\* confirm requests
ScheduledRunners(cf, q) ==
    {c \in ConfReqs : cf[c].target = q /\ cf[c].resp = "running"}

\* C33: an execution has at most one runner scheduled for it, however many
\* confirm requests are made for it and however they overlap, and once a
\* denial of it was answered Cancelled no run of its tool begins.
C33_AtMostOneInvocation ==
    [][\A q \in Reqs :
         /\ Cardinality(ScheduledRunners(confReq', q))
               + (IF req'[q].resp = "running" THEN 1 ELSE 0) <= 1
         /\ (DeniedByRequester(confReq, q) /\ ToolInFlight(req', confReq', q))
               => ToolInFlight(req, confReq, q)]_vars

(***************************************************************************)
(* SpecRevoke: the requests of SpecConfirm together with one               *)
(* DELETE /permissions/{id} for the permission the executions are made     *)
(* under.                                                                  *)
(***************************************************************************)
RevokeReqs == 1..MaxRevokeReqs

\* DELETE /permissions/{id} arrives for the permission row: db.get is issued
PermRevokeRequest(g) ==
    /\ permReq[g].pc = "idle"
    /\ permReq' = [permReq EXCEPT ![g] = [@ EXCEPT !.kind = "revoke", !.pc = "get"]]
    /\ UNCHANGED <<nonGrantVars, now, permissions>>

\* db.get returns the row: active, revoked_at, revoked_by and
\* revocation_reason are assigned and committed; nothing is deleted
PermRevokeCommit(g) ==
    /\ permReq[g].kind = "revoke"
    /\ permReq[g].pc = "get"
    /\ permission' = [permission EXCEPT !.active = FALSE, !.revoked_at = now]
    /\ permReq' = [permReq EXCEPT ![g] = [@ EXCEPT !.pc = "done", !.resp = "200"]]
    /\ UNCHANGED <<memVars, callVars, chatVars, consVars, compVars, confVars,
                   registryVars, builtinVars, managerVars, now, permissions,
                   rate_limit, req,
                   executions>>

NextRevoke ==
    \/ \E q \in RevokeReqs : ExecRequest(q, FALSE, TRUE)
    \/ \E q \in RevokeReqs : ExecPermission(q)
    \/ \E q \in RevokeReqs : ExecRateSelect(q)
    \/ \E q \in RevokeReqs : ExecRateCommit(q)
    \/ \E q \in RevokeReqs : BgStart(q)
    \/ \E q \in RevokeReqs, sandbox_ok \in BOOLEAN : BgSandbox(q, sandbox_ok)
    \/ \E q \in RevokeReqs, ok \in BOOLEAN : BgFinish(q, ok, FALSE)
    \/ \E c \in ConfReqs, q \in RevokeReqs, confirm \in BOOLEAN :
          ConfRequest(c, q, confirm, "requester")
    \/ \E c \in ConfReqs : ConfGet(c)
    \/ \E c \in ConfReqs : ConfDenyCommit(c)
    \/ \E c \in ConfReqs : ConfCommit(c)
    \/ \E c \in ConfReqs : ConfTeardown(c, FALSE)
    \/ \E c \in ConfReqs : ConfTaskStart(c)
    \/ \E c \in ConfReqs, sandbox_ok \in BOOLEAN : ConfTaskSandbox(c, sandbox_ok)
    \/ \E c \in ConfReqs, ok \in BOOLEAN : ConfTaskFinish(c, ok, FALSE)
    \/ PermRevokeRequest(1)
    \/ PermRevokeCommit(1)

SpecRevoke == InitConfirm /\ [][NextRevoke]_vars

\* revoke(permission) has completed
Revoked(pr) == \E g \in PermReqs : pr[g].kind = "revoke" /\ pr[g].resp = "200"

\* C34: once the revoke of the permission has completed, the permission row
\* is still there, inactive and stamped with its revocation time, and no
\* run of a tool begins under it, also not the run of an execution that was
\* Pending confirmation at the revoke and is confirmed later.
C34_NoRunAfterRevoke ==
    [][/\ Revoked(permReq') =>
            ~permission'.active /\ permission'.revoked_at # NoTime
       /\ \A q \in Reqs :
            (Revoked(permReq) /\ ToolInFlight(req', confReq', q))
               => ToolInFlight(req, confReq, q)]_vars

(***************************************************************************)
(* Further claims checked under SpecNeuron                                 *)
(***************************************************************************)
\* C35: the consolidator of the agent is idle or runs one consolidate():
\* while a run is between its start and its end no turn creates the task of
\* another run and no other run begins.
C35_OneRunPerAgent ==
    [][/\ Len(runs') > Len(runs) => \A r \in RunIds : ~InStage(r)
       /\ \A r \in RunIds :
            (runs[r].pc = "created" /\ runs'[r].pc # "created")
               => \A other \in RunIds \ {r} : ~InStage(other)]_vars

\* the L2 entries appended since stage 2 of run r read L2 into its prompt
AppendedSince(r) ==
    LET snap == runs[r].snap
    IN  IF /\ Len(episodic_memory) > Len(snap)
           /\ SubSeq(episodic_memory, 1, Len(snap)) = snap
        THEN {episodic_memory[i] : i \in (Len(snap) + 1)..Len(episodic_memory)}
        ELSE {}

\* C36: an L2 entry appended while stage 2 of a run awaits the model (by
\* the compaction of add_interaction or by stage 1 of another run) is still
\* in L2 when stage 2 has processed the reply.
C36_NoEpisodeLost ==
    [][\A r \in RunIds :
         (InStage(r) /\ runs[r].stage = 2 /\ runs'[r] # runs[r])
            => \A e \in AppendedSince(r) :
                  \E j \in 1..Len(episodic_memory') : episodic_memory'[j] = e]_vars

(***************************************************************************)
(* Further claims checked under SpecExec                                   *)
(***************************************************************************)
\* the step answers /execute request q with 400: its parameters are invalid
IsValidationReject(q) == req[q].resp # "400" /\ req'[q].resp = "400"

\* C37: validation comes before the rate limit: the step in which a request
\* is rejected for its parameters leaves the minute, hour and day counts of
\* the rate-limit row as they were, and the request has counted itself in
\* none of them.
C37_RejectedTakesNoSlot ==
    [][\A q \in Reqs :
         IsValidationReject(q) =>
            /\ rate_limit'.minute_count = rate_limit.minute_count
            /\ rate_limit'.hour_count = rate_limit.hour_count
            /\ rate_limit'.day_count = rate_limit.day_count
            /\ req[q].rl = <<>>]_vars

(***************************************************************************)
(* SpecQuiet: one consolidate() run on a neuron whose L1 is full (it has   *)
(* processed 10 turns or more), with no turn completing during the run     *)
(* and with every model call returning the JSON its prompt asks for.       *)
(***************************************************************************)
QuietSeeds == WorkingMemoryMax..MaxQuietSeed

InitQuiet ==
    /\ \E K \in QuietSeeds :
         /\ working_memory = SeedMemory(K).wm
         /\ episodic_memory = SeedMemory(K).em
    /\ semantic_memory = EmptyDict
    /\ procedural_memory = EmptyDict
    /\ now = 0
    /\ InitCalls
    /\ InitToolsIdle
    /\ InitNeuronIdle

NextQuiet ==
    \/ ConsCall
    \/ \E r \in RunIds : ConsBegin(r)
    \/ \E r \in RunIds :
         \E o \in LLMOutcomes(runs[r].stage, runs[r].snap) :
            o.kind = "ok" /\ ConsReply(r, o)

SpecQuiet == InitQuiet /\ [][NextQuiet]_vars

\* C38: a consolidate() run that starts with a full L1, is not interleaved
\* with add_interaction and gets valid JSON from every model call has, when
\* it returns, had stage 4 ask the model about the L1 turns and append the
\* returned workflows to L4.
C38_Stage4TakesEffect ==
    \A r \in RunIds :
        runs[r].pc = "done"
           => /\ runs[r].result = "success"
              /\ DictGet(procedural_memory, "workflows", <<>>) = Stage4Reply.workflows

(***************************************************************************)
(* SpecClose: the neuron of SpecNeuron whose callers may also stop reading *)
(* a reply: the generator of chat() is closed, or the task iterating it is *)
(* cancelled, while the turn is suspended.                                 *)
(***************************************************************************)
\* GeneratorExit is raised at the yield, or CancelledError at the await the
\* turn is suspended at; neither is an Exception, so the except branch of
\* chat() does not run and the frame is left with self.state as it is
ChatClose(t) ==
    /\ chatPc[t] \in {"tools", "stream"}
    /\ chatPc' = [chatPc EXCEPT ![t] = "idle"]
    /\ full_response' = [full_response EXCEPT ![t] = <<>>]
    /\ yielded' = [yielded EXCEPT ![t] = <<>>]
    /\ UNCHANGED <<memVars, now, nonNeuronVars, consVars, state, turnsStarted>>

NextClose ==
    \/ NextNeuron
    \/ \E t \in TurnSlots : ChatClose(t)

SpecClose == InitNeuron /\ [][NextClose]_vars

\* C39: whenever no chat() turn of the agent is in progress the agent's
\* state is Idle or Error, also after a turn whose consumer stopped reading
\* before the model stream had completed.
C39_IdleOrErrorBetweenTurns ==
    (\A t \in TurnSlots : chatPc[t] = "idle") => state \in {"idle", "error"}

(***************************************************************************)
(* SpecManager: concurrent chat requests for one neuron id against the     *)
(* NeuronManager: get_neuron, add_neuron when none is registered, then the *)
(* turn on the Neuron obtained.  An instance is a Neuron object with its   *)
(* own HierarchicalMemory, of which the number of turns is kept.           *)
(***************************************************************************)
nonManagerVars ==
    <<memVars, now, callVars, chatVars, consVars, compVars, toolVars, grantVars,
      confVars, registryVars, builtinVars>>

InitManager ==
    /\ InitMemory
    /\ now = 0
    /\ InitCalls
    /\ InitNeuronIdle
    /\ InitToolsIdle

\* chat_stream, step 4: get_neuron; when it returns None, add_neuron tests
\* the registry, constructs a Neuron and awaits its initialize()
ChatGetNeuron(c) ==
    /\ chatReq[c].pc = "idle"
    /\ \A d \in ChatReqs : d < c => chatReq[d].pc # "idle"
    /\ IF neurons # 0
       THEN /\ chatReq' = [chatReq EXCEPT ![c] = [pc |-> "chat", neuron |-> neurons]]
            /\ UNCHANGED instances
       ELSE /\ instances' = Append(instances, [turns |-> 0])
            /\ chatReq' = [chatReq EXCEPT ![c] =
                              [pc |-> "initialize", neuron |-> Len(instances) + 1]]
    /\ UNCHANGED <<nonManagerVars, neurons>>

\* neuron.initialize() returns: add_neuron stores its Neuron under the id
\* and returns it
AddNeuronRegister(c) ==
    /\ chatReq[c].pc = "initialize"
    /\ neurons' = chatReq[c].neuron
    /\ chatReq' = [chatReq EXCEPT ![c] = [@ EXCEPT !.pc = "chat"]]
    /\ UNCHANGED <<nonManagerVars, instances>>

\* neuron.initialize() raises: add_neuron registers nothing, the request
\* fails
AddNeuronFail(c) ==
    /\ chatReq[c].pc = "initialize"
    /\ chatReq' = [chatReq EXCEPT ![c] = [@ EXCEPT !.pc = "failed"]]
    /\ UNCHANGED <<nonManagerVars, neurons, instances>>

\* the turn of the request completes on the Neuron it holds: add_interaction
\* on that Neuron's memory
ChatTurn(c) ==
    /\ chatReq[c].pc = "chat"
    /\ instances' = [instances EXCEPT ![chatReq[c].neuron] =
                        [@ EXCEPT !.turns = @ + 1]]
    /\ chatReq' = [chatReq EXCEPT ![c] = [@ EXCEPT !.pc = "done"]]
    /\ UNCHANGED <<nonManagerVars, neurons>>

NextManager ==
    \/ \E c \in ChatReqs : ChatGetNeuron(c)
    \/ \E c \in ChatReqs : AddNeuronRegister(c)
    \/ \E c \in ChatReqs : AddNeuronFail(c)
    \/ \E c \in ChatReqs : ChatTurn(c)

SpecManager == InitManager /\ [][NextManager]_vars

\* the request has obtained its Neuron from the manager
HoldsNeuron(cr, c) == cr[c].pc \in {"chat", "done"}

\* C40: the chat requests of one neuron id all obtain the same Neuron,
\* however their add_neuron calls overlap, and a turn is appended only to
\* the memory of the Neuron that the registry holds.
C40_OneInstancePerId ==
    [][/\ \A c, d \in ChatReqs :
            (HoldsNeuron(chatReq', c) /\ HoldsNeuron(chatReq', d))
               => chatReq'[c].neuron = chatReq'[d].neuron
       /\ \A c \in ChatReqs :
            (chatReq[c].pc = "chat" /\ chatReq'[c].pc = "done")
               => neurons = chatReq[c].neuron]_vars
====
